---- MODULE Spec2Model ----
(***************************************************************************)
(* Model of the /feed request of rssible (src/worker.js, first variant,    *)
(* lines 1-400): fetch, handleFeed, parseParams, parseFilters,             *)
(* matchFilters, safeCap, the HTMLRewriter handlers registered by          *)
(* extractItems, buildRss and esc.  The link handler with the              *)
(* self-reference token is the one of src/unnamed/part_000 (519-582).      *)
(*                                                                         *)
(* JavaScript strings are sequences of one-character strings.  null and    *)
(* undefined are the sentinel sequences NULL and UNDEF.  The HTMLRewriter  *)
(* tokenizer is the environment: it delivers element-open, element-close   *)
(* and text-chunk events in document order, inside body chunks.            *)
(***************************************************************************)
EXTENDS Integers, Sequences, FiniteSets, TLC

NULL  == << "<null>" >>
UNDEF == << "<undefined>" >>

(***************************************************************************)
(* String primitives of the JavaScript runtime.                            *)
(***************************************************************************)
WhiteSpace == { " ", "\n", "\r", "\t" }

\* Index of the first non-whitespace character at or after i, Len(s) + 1 if none
RECURSIVE SkipLeft(_, _)
SkipLeft(s, i) ==
  IF i > Len(s) THEN i
  ELSE IF s[i] \notin WhiteSpace THEN i ELSE SkipLeft(s, i + 1)

\* Index of the last non-whitespace character at or before i, 0 if none
RECURSIVE SkipRight(_, _)
SkipRight(s, i) ==
  IF i < 1 THEN 0
  ELSE IF s[i] \notin WhiteSpace THEN i ELSE SkipRight(s, i - 1)

\* String.prototype.trim
Trim(s) ==
  LET lo == SkipLeft(s, 1)
  IN  IF lo > Len(s) THEN << >> ELSE SubSeq(s, lo, SkipRight(s, Len(s)))

\* String.prototype.slice(0, n) for 0 <= n
SliceTo(s, n) == IF Len(s) <= n THEN s ELSE SubSeq(s, 1, n)

\* Index of the first occurrence of c at or after i, 0 if none
RECURSIVE ScanFor(_, _, _)
ScanFor(s, c, i) ==
  IF i > Len(s) THEN 0
  ELSE IF s[i] = c THEN i ELSE ScanFor(s, c, i + 1)

\* Index of the last occurrence of c at or before i, 0 if none
RECURSIVE ScanBack(_, _, _)
ScanBack(s, c, i) ==
  IF i < 1 THEN 0
  ELSE IF s[i] = c THEN i ELSE ScanBack(s, c, i - 1)

\* String.prototype.indexOf(c), 0-based, -1 when absent
IndexOf(s, c) == ScanFor(s, c, 1) - 1

\* String.prototype.lastIndexOf(c), 0-based, -1 when absent
LastIndexOf(s, c) == ScanBack(s, c, Len(s)) - 1

\* String.prototype.slice(a, b) with 0-based a <= b
Slice(s, a, b) == SubSeq(s, a + 1, b)

\* String.prototype.slice(a) with 0-based a
SliceFrom(s, a) == SubSeq(s, a + 1, Len(s))

StartsWith(s, c) == Len(s) > 0 /\ s[1] = c

UpperCase ==
  << "A", "B", "C", "D", "E", "F", "G", "H", "I", "J", "K", "L", "M",
     "N", "O", "P", "Q", "R", "S", "T", "U", "V", "W", "X", "Y", "Z" >>
LowerCase ==
  << "a", "b", "c", "d", "e", "f", "g", "h", "i", "j", "k", "l", "m",
     "n", "o", "p", "q", "r", "s", "t", "u", "v", "w", "x", "y", "z" >>

LowerChar(c) ==
  IF \E i \in 1..26 : UpperCase[i] = c
  THEN LowerCase[CHOOSE i \in 1..26 : UpperCase[i] = c]
  ELSE c

\* String.prototype.toLowerCase
ToLowerCase(s) == [ i \in 1..Len(s) |-> LowerChar(s[i]) ]

\* String.prototype.replace(a, b) with string arguments: first occurrence only
ReplaceFirst(s, a, b) ==
  LET k == IndexOf(s, a)
  IN  IF k < 0 THEN s ELSE SliceTo(s, k) \o << b >> \o SliceFrom(s, k + 1)

\* String.prototype.split(/\r?\n/)
RECURSIVE SplitLines(_)
SplitLines(s) ==
  LET k == IndexOf(s, "\n")
  IN  IF k < 0 THEN << s >>
      ELSE LET head == SliceTo(s, k)
               line == IF Len(head) > 0 /\ head[Len(head)] = "\r"
                       THEN SliceTo(head, Len(head) - 1) ELSE head
           IN  << line >> \o SplitLines(SliceFrom(s, k + 1))

\* query.get(name)?.trim()  (null stays nullish)
GetTrim(v) == IF v = NULL THEN UNDEF ELSE Trim(v)

\* JavaScript truthiness of a string-or-nullish value
Truthy(v) == v # NULL /\ v # UNDEF /\ v # << >>

(***************************************************************************)
(* Number(string) for signed decimal integer literals, "Infinity" and      *)
(* everything else the inputs below contain (which is NaN).  Fractional,   *)
(* exponent and hexadecimal literals are not among the modelled inputs.    *)
(***************************************************************************)
Digits == { "0", "1", "2", "3", "4", "5", "6", "7", "8", "9" }

DigitVal(c) ==
  CASE c = "0" -> 0 [] c = "1" -> 1 [] c = "2" -> 2 [] c = "3" -> 3
    [] c = "4" -> 4 [] c = "5" -> 5 [] c = "6" -> 6 [] c = "7" -> 7
    [] c = "8" -> 8 [] c = "9" -> 9

RECURSIVE DecVal(_)
DecVal(s) == IF s = << >> THEN 0
             ELSE 10 * DecVal(SliceTo(s, Len(s) - 1)) + DigitVal(s[Len(s)])

AllDigits(s) == Len(s) > 0 /\ \A i \in 1..Len(s) : s[i] \in Digits

InfinityLit == << "I", "n", "f", "i", "n", "i", "t", "y" >>

Fin(n) == [ kind |-> "finite", n |-> n ]
NaN    == [ kind |-> "nan", n |-> 0 ]
PosInf == [ kind |-> "inf", n |-> 1 ]
NegInf == [ kind |-> "inf", n |-> -1 ]

ToNumber(s) ==
  LET t == Trim(s)
      signed == Len(t) > 0 /\ t[1] \in { "+", "-" }
      body == IF signed THEN SliceFrom(t, 1) ELSE t
      neg == signed /\ t[1] = "-"
  IN  IF t = << >> THEN Fin(0)
      ELSE IF AllDigits(body) THEN Fin(IF neg THEN 0 - DecVal(body) ELSE DecVal(body))
      ELSE IF body = InfinityLit THEN (IF neg THEN NegInf ELSE PosInf)
      ELSE NaN

IsFinite(x) == x.kind = "finite"

DEFAULT_LIMIT == 5
MAX_LIMIT == 25

\* const limitRaw = Number(query.get("limit") || DEFAULT_LIMIT);
\* const limit = Math.min(isFinite(limitRaw) ? limitRaw : DEFAULT_LIMIT, MAX_LIMIT);
ParseLimit(v) ==
  LET limitRaw == IF Truthy(v) THEN ToNumber(v) ELSE Fin(DEFAULT_LIMIT)
      x == IF IsFinite(limitRaw) THEN limitRaw.n ELSE DEFAULT_LIMIT
  IN  IF x < MAX_LIMIT THEN x ELSE MAX_LIMIT

(***************************************************************************)
(* Regular expressions.  A pattern is  ^? atom+ $?  where an atom is a     *)
(* letter, a space or "." ; any other pattern of the inputs below is a     *)
(* SyntaxError of new RegExp.  A compiled regex carries lastIndex, which   *)
(* test() reads and writes when the g or y flag is set.                    *)
(***************************************************************************)
FlagChars == { "d", "g", "i", "m", "s", "u", "v", "y" }

ValidFlags(f) ==
  /\ \A i \in 1..Len(f) : f[i] \in FlagChars
  /\ \A i, j \in 1..Len(f) : i # j => f[i] # f[j]
  /\ ~ ("u" \in { f[i] : i \in 1..Len(f) } /\ "v" \in { f[i] : i \in 1..Len(f) })

MetaChars == { "(", ")", "[", "]", "{", "}", "*", "+", "?", "|", "\\", "^", "$" }

PatternCore(p) ==
  LET a == IF StartsWith(p, "^") THEN SliceFrom(p, 1) ELSE p
  IN  IF Len(a) > 0 /\ a[Len(a)] = "$" THEN SliceTo(a, Len(a) - 1) ELSE a

ValidPattern(p) ==
  LET core == PatternCore(p)
  IN  \A i \in 1..Len(core) : core[i] \notin MetaChars

HasFlag(rx, c) == \E i \in 1..Len(rx.flags) : rx.flags[i] = c

NoRegex == [ set |-> FALSE, source |-> << >>, flags |-> << >> ]

\* The regex matches text at 0-based position pos
MatchesAt(rx, text, pos) ==
  LET core == PatternCore(rx.source)
      anchoredEnd == Len(rx.source) > 0 /\ rx.source[Len(rx.source)] = "$"
                     /\ Len(rx.source) > Len(core)
      anchoredStart == StartsWith(rx.source, "^")
      fold(c) == IF HasFlag(rx, "i") THEN LowerChar(c) ELSE c
  IN  /\ pos + Len(core) <= Len(text)
      /\ anchoredStart => pos = 0
      /\ anchoredEnd => pos + Len(core) = Len(text)
      /\ \A k \in 1..Len(core) :
            \/ core[k] = "." /\ text[pos + k] \notin { "\n", "\r" }
            \/ core[k] # "." /\ fold(core[k]) = fold(text[pos + k])

\* ToString of the argument of RegExp.prototype.test
UndefinedLit == << "u", "n", "d", "e", "f", "i", "n", "e", "d" >>
ToStr(v) == IF v = UNDEF THEN UndefinedLit ELSE v

\* Positions where test() may find a match, given lastIndex
MatchPositions(rx, v, lastIndex) ==
  LET text == ToStr(v)
      sticky == HasFlag(rx, "y")
      from == IF HasFlag(rx, "g") \/ sticky THEN lastIndex ELSE 0
  IN  { p \in 0..Len(text) :
          /\ p >= from
          /\ sticky => p = from
          /\ MatchesAt(rx, text, p) }

\* RegExp.prototype.test: the result
RegexTest(rx, v, lastIndex) == MatchPositions(rx, v, lastIndex) # {}

\* RegExp.prototype.test: lastIndex afterwards
RegexLastIndex(rx, v, lastIndex) ==
  LET ps == MatchPositions(rx, v, lastIndex)
  IN  IF ~ (HasFlag(rx, "g") \/ HasFlag(rx, "y")) THEN lastIndex
      ELSE IF ps = {} THEN 0
      ELSE (CHOOSE p \in ps : \A q \in ps : p <= q) + Len(PatternCore(rx.source))

(***************************************************************************)
(* parseFilters (src/worker.js 361-393)                                    *)
(***************************************************************************)
KeyItem  == << "i", "t", "e", "m" >>
KeyTitle == << "t", "i", "t", "l", "e" >>
KeyLink  == << "l", "i", "n", "k" >>
KeyDesc  == << "d", "e", "s", "c" >>
FilterKeys == { KeyItem, KeyTitle, KeyLink, KeyDesc }

NoRule == [ key |-> << >>, rx |-> NoRegex ]

\* ParseFilterLine without the test of an empty pattern
ParseFilterLineAnyPattern(rawLine) ==
  LET line == Trim(rawLine)
      eq == IndexOf(line, "=")
      key == ToLowerCase(Trim(Slice(line, 0, eq)))
      regex == Trim(SliceFrom(line, eq + 1))
      lastSlash == LastIndexOf(regex, "/")
      pattern == Slice(regex, 1, lastSlash)
      flags == SliceFrom(regex, lastSlash + 1)
      pat == ReplaceFirst(pattern, "/", "/")
  IN  IF line = << >> THEN NoRule
      ELSE IF eq <= 0 THEN NoRule
      ELSE IF key \notin FilterKeys THEN NoRule
      ELSE IF ~ StartsWith(regex, "/") THEN NoRule
      ELSE IF lastSlash <= 0 THEN NoRule
      ELSE IF ~ (ValidPattern(pat) /\ ValidFlags(flags)) THEN NoRule
      ELSE [ key |-> key, rx |-> [ set |-> TRUE, source |-> pat, flags |-> flags ] ]

\* One iteration of the loop of parseFilters: the rule a line contributes
ParseFilterLine(rawLine) ==
  LET line == Trim(rawLine)
      eq == IndexOf(line, "=")
      key == ToLowerCase(Trim(Slice(line, 0, eq)))
      regex == Trim(SliceFrom(line, eq + 1))
      lastSlash == LastIndexOf(regex, "/")
      pattern == Slice(regex, 1, lastSlash)
      flags == SliceFrom(regex, lastSlash + 1)
      pat == ReplaceFirst(pattern, "/", "/")
  IN  IF line = << >> THEN NoRule
      ELSE IF eq <= 0 THEN NoRule
      ELSE IF key \notin FilterKeys THEN NoRule
      ELSE IF ~ StartsWith(regex, "/") THEN NoRule
      ELSE IF lastSlash <= 0 THEN NoRule
      ELSE IF pattern = << >> THEN NoRule
      ELSE IF ~ (ValidPattern(pat) /\ ValidFlags(flags)) THEN NoRule
      ELSE [ key |-> key, rx |-> [ set |-> TRUE, source |-> pat, flags |-> flags ] ]

EmptyFilters ==
  [ defined |-> TRUE, item |-> NoRegex, title |-> NoRegex, link |-> NoRegex, desc |-> NoRegex ]

\* out[key] = new RegExp(pat, flags): a later line replaces an earlier one
PutRule(out, rule) ==
  IF rule.key = KeyItem THEN [ out EXCEPT !.item = rule.rx ]
  ELSE IF rule.key = KeyTitle THEN [ out EXCEPT !.title = rule.rx ]
  ELSE IF rule.key = KeyLink THEN [ out EXCEPT !.link = rule.rx ]
  ELSE IF rule.key = KeyDesc THEN [ out EXCEPT !.desc = rule.rx ]
  ELSE out

RECURSIVE FoldRules(_, _)
FoldRules(out, lines) ==
  IF lines = << >> THEN out
  ELSE FoldRules(PutRule(out, ParseFilterLine(Head(lines))), Tail(lines))

\* return Object.keys(out).length ? out : undefined;
parseFilters(block) ==
  LET out == FoldRules(EmptyFilters, SplitLines(block))
  IN  IF out.item.set \/ out.title.set \/ out.link.set \/ out.desc.set
      THEN out
      ELSE [ out EXCEPT !.defined = FALSE ]

(***************************************************************************)
(* parseParams (src/worker.js 86-128).  A query is a record of raw values, *)
(* NULL for an absent parameter.                                           *)
(***************************************************************************)
ModeLite     == << "l", "i", "t", "e" >>
ModeFull     == << "f", "u", "l", "l" >>
ModeAdvanced == << "a", "d", "v", "a", "n", "c", "e", "d" >>
StreamOn     == << "o", "n" >>
StreamOff    == << "o", "f", "f" >>

\* const mode = (modeRaw === "full") ? "full" : (modeRaw === "advanced" ? "advanced" : "lite");
ParseMode(v) ==
  LET modeRaw == ToLowerCase(IF Truthy(v) THEN v ELSE ModeLite)
  IN  IF modeRaw = ModeFull THEN ModeFull
      ELSE IF modeRaw = ModeAdvanced THEN ModeAdvanced ELSE ModeLite

\* const stream = !(streamRaw === "off");
ParseStream(v) == ToLowerCase(IF Truthy(v) THEN v ELSE StreamOn) # StreamOff

(***************************************************************************)
(* decodeB64, parseHeaders, sanitizeHeaders (src/worker.js 302-357).       *)
(* atob is the forgiving-base64 decode of the HTML standard; the headers   *)
(* object is a sequence of name/value pairs in insertion order.            *)
(***************************************************************************)
B64Alphabet ==
  << "A", "B", "C", "D", "E", "F", "G", "H", "I", "J", "K", "L", "M", "N", "O", "P", "Q",
     "R", "S", "T", "U", "V", "W", "X", "Y", "Z", "a", "b", "c", "d", "e", "f", "g",
     "h", "i", "j", "k", "l", "m", "n", "o", "p", "q", "r", "s", "t", "u", "v", "w",
     "x", "y", "z", "0", "1", "2", "3", "4", "5", "6", "7", "8", "9", "+", "/" >>

\* The characters with codes 32 to 126 (code 96 is written by name)
Printable ==
  << " ", "!", "\"", "#", "$", "%", "&", "'", "(", ")", "*", "+", ",", "-", ".", "/",
     "0", "1", "2", "3", "4", "5", "6", "7", "8", "9", ":", ";", "<", "=", ">", "?",
     "@", "A", "B", "C", "D", "E", "F", "G", "H", "I", "J", "K", "L", "M", "N", "O",
     "P", "Q", "R", "S", "T", "U", "V", "W", "X", "Y", "Z", "[", "\\", "]", "^", "_",
     "<grave>", "a", "b", "c", "d", "e", "f", "g", "h", "i", "j", "k", "l", "m", "n", "o",
     "p", "q", "r", "s", "t", "u", "v", "w", "x", "y", "z", "{", "|", "}", "~" >>

\* The character of a decoded byte; bytes outside the table are one marker
Chr(b) ==
  IF b \in 32..126 THEN Printable[b - 31]
  ELSE IF b = 10 THEN "\n"
  ELSE IF b = 13 THEN "\r"
  ELSE IF b = 9 THEN "\t"
  ELSE "<byte>"

IsB64Char(c) == \E i \in 1..Len(B64Alphabet) : B64Alphabet[i] = c
B64Value(c) == (CHOOSE i \in 1..Len(B64Alphabet) : B64Alphabet[i] = c) - 1

\* atob throws InvalidCharacterError
B64Failure == << "<InvalidCharacterError>" >>

NotAsciiWhitespace(c) == c \notin { " ", "\t", "\n", "\f", "\r" }

\* One or two "=" at the end are removed when the length is a multiple of 4
StripPadding(s) ==
  IF Len(s) % 4 = 0 /\ Len(s) > 0 /\ s[Len(s)] = "="
  THEN IF s[Len(s) - 1] = "=" THEN SubSeq(s, 1, Len(s) - 2) ELSE SubSeq(s, 1, Len(s) - 1)
  ELSE s

\* The bytes of the 6-bit values vs: 4 values give 3 bytes, 3 give 2, 2 give 1
RECURSIVE DecodeValues(_)
DecodeValues(vs) ==
  IF Len(vs) >= 4
  THEN LET n == vs[1] * 262144 + vs[2] * 4096 + vs[3] * 64 + vs[4]
       IN  << n \div 65536, (n \div 256) % 256, n % 256 >>
             \o DecodeValues(SubSeq(vs, 5, Len(vs)))
  ELSE IF Len(vs) = 3
  THEN LET n == vs[1] * 4096 + vs[2] * 64 + vs[3]
       IN  << n \div 1024, (n \div 4) % 256 >>
  ELSE IF Len(vs) = 2
  THEN << (vs[1] * 64 + vs[2]) \div 16 >>
  ELSE << >>

atob(data) ==
  LET d == StripPadding(SelectSeq(data, NotAsciiWhitespace))
  IN  IF Len(d) % 4 = 1 \/ \E i \in 1..Len(d) : ~ IsB64Char(d[i])
      THEN B64Failure
      ELSE LET bytes == DecodeValues([ i \in 1..Len(d) |-> B64Value(d[i]) ])
           IN  [ i \in 1..Len(bytes) |-> Chr(bytes[i]) ]

\* return atob(rawB64);
decodeB64(rawB64) == atob(rawB64)

\* out[name] = value: a new name is added last, a known name keeps its place
PutHeader(out, name, value) ==
  IF \E i \in 1..Len(out) : out[i].name = name
  THEN [ i \in 1..Len(out) |-> IF out[i].name = name THEN [ name |-> name, value |-> value ]
                                ELSE out[i] ]
  ELSE Append(out, [ name |-> name, value |-> value ])

\* One line of parseHeaders: lines that are empty, have no ":" after a first
\* character, or have an empty name are skipped
ParseHeaderLine(out, rawLine) ==
  LET line == Trim(rawLine)
      idx == IndexOf(line, ":")
      name == Trim(Slice(line, 0, idx))
      value == Trim(SliceFrom(line, idx + 1))
  IN  IF line = << >> THEN out
      ELSE IF idx <= 0 THEN out
      ELSE IF name = << >> THEN out
      ELSE PutHeader(out, name, value)

RECURSIVE FoldHeaders(_, _)
FoldHeaders(out, lines) ==
  IF lines = << >> THEN out
  ELSE FoldHeaders(ParseHeaderLine(out, Head(lines)), Tail(lines))

parseHeaders(block) == FoldHeaders(<< >>, SplitLines(block))

\* const drop = new Set([...])
DropNames ==
  { << "c", "o", "n", "n", "e", "c", "t", "i", "o", "n" >>,
    << "p", "r", "o", "x", "y", "-", "c", "o", "n", "n", "e", "c", "t", "i", "o", "n" >>,
    << "k", "e", "e", "p", "-", "a", "l", "i", "v", "e" >>,
    << "t", "r", "a", "n", "s", "f", "e", "r", "-", "e", "n", "c", "o", "d", "i", "n",
       "g" >>,
    << "u", "p", "g", "r", "a", "d", "e" >>,
    << "t", "e" >>,
    << "h", "o", "s", "t" >>,
    << "c", "o", "n", "t", "e", "n", "t", "-", "l", "e", "n", "g", "t", "h" >>,
    << "c", "o", "n", "t", "e", "n", "t", "-", "e", "n", "c", "o", "d", "i", "n", "g" >>,
    << "p", "r", "o", "x", "y", "-", "a", "u", "t", "h", "o", "r", "i", "z", "a", "t", "i",
       "o", "n" >> }

KeptHeader(h) == ToLowerCase(h.name) \notin DropNames

sanitizeHeaders(headers) == SelectSeq(headers, KeptHeader)

\* The headers parameter is not base64: parseParams throws http(400, ...)
HeadersRejected(q) ==
  /\ ParseMode(q.mode) = ModeAdvanced
  /\ Truthy(GetTrim(q.headers))
  /\ decodeB64(GetTrim(q.headers)) = B64Failure

\* let headers = {}; replaced in advanced mode by the decoded block
ParseHeadersParam(q) ==
  IF ParseMode(q.mode) = ModeAdvanced /\ Truthy(GetTrim(q.headers))
  THEN sanitizeHeaders(parseHeaders(decodeB64(GetTrim(q.headers))))
  ELSE << >>

\* ParseStatus without the test of title and link
ParseStatusAnySelector(q) ==
  IF ~ Truthy(GetTrim(q.url)) \/ ~ Truthy(GetTrim(q.item)) THEN 400
  ELSE IF HeadersRejected(q) THEN 400
  ELSE 0

\* ParseStatus decoding the headers parameter in every mode
ParseStatusAnyModeHeaders(q) ==
  IF ~ Truthy(GetTrim(q.url)) \/ ~ Truthy(GetTrim(q.item)) THEN 400
  ELSE IF ~ Truthy(GetTrim(q.title)) /\ ~ Truthy(GetTrim(q.link)) THEN 400
  ELSE IF Truthy(GetTrim(q.headers)) /\ decodeB64(GetTrim(q.headers)) = B64Failure THEN 400
  ELSE 0

\* The status parseParams throws with, 0 when it returns
ParseStatus(q) ==
  IF ~ Truthy(GetTrim(q.url)) \/ ~ Truthy(GetTrim(q.item)) THEN 400
  ELSE IF ~ Truthy(GetTrim(q.title)) /\ ~ Truthy(GetTrim(q.link)) THEN 400
  ELSE IF HeadersRejected(q) THEN 400
  ELSE 0

\* parseParams keeping desc and date in every mode
parseParamsAnyMode(q) ==
  LET filterRaw == GetTrim(q.filters)
  IN  [ url     |-> GetTrim(q.url),
        item    |-> GetTrim(q.item),
        title   |-> GetTrim(q.title),
        link    |-> GetTrim(q.link),
        desc    |-> GetTrim(q.desc),
        date    |-> GetTrim(q.date),
        limit   |-> ParseLimit(q.limit),
        stream  |-> ParseStream(q.stream),
        headers |-> ParseHeadersParam(q),
        filters |-> IF Truthy(filterRaw) THEN parseFilters(filterRaw) ELSE EmptyFilters ]

\* The record parseParams returns
parseParams(q) ==
  LET mode == ParseMode(q.mode)
      filterRaw == GetTrim(q.filters)
  IN  [ url     |-> GetTrim(q.url),
        item    |-> GetTrim(q.item),
        title   |-> GetTrim(q.title),
        link    |-> GetTrim(q.link),
        desc    |-> IF mode # ModeLite THEN GetTrim(q.desc) ELSE UNDEF,
        date    |-> IF mode # ModeLite THEN GetTrim(q.date) ELSE UNDEF,
        limit   |-> ParseLimit(q.limit),
        stream  |-> ParseStream(q.stream),
        headers |-> ParseHeadersParam(q),
        filters |-> IF Truthy(filterRaw) THEN parseFilters(filterRaw) ELSE EmptyFilters ]

NoParams ==
  [ url |-> UNDEF, item |-> UNDEF, title |-> UNDEF, link |-> UNDEF, desc |-> UNDEF,
    date |-> UNDEF, limit |-> DEFAULT_LIMIT, stream |-> TRUE, headers |-> << >>,
    filters |-> EmptyFilters ]

(***************************************************************************)
(* safeCap (src/worker.js 307-311)                                         *)
(***************************************************************************)
safeCap(text, maxChars) ==
  IF text = << >> THEN << >>
  ELSE IF Len(text) <= maxChars THEN Trim(text)
  ELSE Trim(SliceTo(text, maxChars))

CAP_TITLE == 128
CAP_DESC == 1024
CAP_DATE == 64
CAP_ITEMTEXT == 2048

(***************************************************************************)
(* new Date(text).toISOString() for the date texts of the inputs below:    *)
(* a four-digit year (ISO date-only form YYYY), optionally followed by     *)
(* THH:mm; any other text is an Invalid Date, for which toISOString throws *)
(* a RangeError.  The worker's time zone is UTC.                           *)
(***************************************************************************)
IsYear(s) == Len(s) = 4 /\ AllDigits(s)

IsTime(s) ==
  /\ Len(s) = 6 /\ s[1] = "T" /\ s[4] = ":"
  /\ AllDigits(<< s[2], s[3], s[5], s[6] >>)
  /\ DecVal(<< s[2], s[3] >>) <= 24 /\ DecVal(<< s[5], s[6] >>) <= 59
  /\ (DecVal(<< s[2], s[3] >>) = 24 => DecVal(<< s[5], s[6] >>) = 0)

DateParses(s) ==
  \/ IsYear(s)
  \/ Len(s) = 10 /\ IsYear(SubSeq(s, 1, 4)) /\ IsTime(SubSeq(s, 5, 10))

\* YYYY-01-01THH:mm:00.000Z
ToISOString(s) ==
  SubSeq(s, 1, 4) \o << "-", "0", "1", "-", "0", "1" >>
    \o (IF Len(s) = 10 THEN SubSeq(s, 5, 10) ELSE << "T", "0", "0", ":", "0", "0" >>)
    \o << ":", "0", "0", ".", "0", "0", "0", "Z" >>

(***************************************************************************)
(* new URL(url) for http urls of the form  scheme://host[path][?query]     *)
(* [#fragment]  without userinfo and without port: the host ends at the    *)
(* first "/", "?" or "#" after "://", and scheme and host are lower-cased. *)
(***************************************************************************)
HostEnd == { "/", "?", "#" }

\* Index of the first character of s in cs at or after i, 0 if none
RECURSIVE ScanAny(_, _, _)
ScanAny(s, cs, i) ==
  IF i > Len(s) THEN 0
  ELSE IF s[i] \in cs THEN i ELSE ScanAny(s, cs, i + 1)

\* new URL(url).origin
Origin(url) ==
  LET k == IndexOf(url, "/")
      j == ScanAny(url, HostEnd, k + 3)
  IN  ToLowerCase(IF j = 0 THEN url ELSE SliceTo(url, j - 1))

\* new URL(url).host
Host(url) == SliceFrom(Origin(url), IndexOf(url, "/") + 2)

(***************************************************************************)
(* esc and buildRss (src/worker.js 252-294).  The document buildRss        *)
(* returns is kept as its lines: a line is a start tag, an end tag, or an  *)
(* element  <name>body</name>  whose body is the character string the      *)
(* template interpolates ("cdata": between <![CDATA[ and ]]>).             *)
(***************************************************************************)
Escapables == { "<", ">", "&" }

EntLt  == << "&", "l", "t", ";" >>
EntGt  == << "&", "g", "t", ";" >>
EntAmp == << "&", "a", "m", "p", ";" >>

\* str.replace(/[<>&]/g, c => ...)
RECURSIVE ReplaceEscapables(_)
ReplaceEscapables(str) ==
  IF str = << >> THEN << >>
  ELSE (CASE Head(str) = "<" -> EntLt
          [] Head(str) = ">" -> EntGt
          [] Head(str) = "&" -> EntAmp
          [] OTHER -> << Head(str) >>) \o ReplaceEscapables(Tail(str))

\* esc whose early exit looks for "<" only
escEarlyExit(str) ==
  IF IndexOf(str, "<") = -1 THEN str ELSE ReplaceEscapables(str)

\* esc of a string value
esc(str) ==
  IF IndexOf(str, "<") = -1 /\ IndexOf(str, ">") = -1 /\ IndexOf(str, "&") = -1
  THEN str
  ELSE ReplaceEscapables(str)

\* new Date().toUTCString() at serialization time
Now == << "T", "h", "u", ",", " ", "0", "5", " ", "N", "o", "v", " ", "2", "0", "2", "6", " ", "1", "2", ":", "0", "0", ":", "0", "0", " ", "G", "M", "T" >>

Favicon == << "/", "f", "a", "v", "i", "c", "o", "n", ".", "i", "c", "o" >>
Generator == << "F", "e", "e", "d", "m", "a", "k", "e", "r" >>

XmlDecl == [ kind |-> "decl", name |-> "xml", body |-> << >> ]
StartTag(name) == [ kind |-> "start", name |-> name, body |-> << >> ]
EndTag(name) == [ kind |-> "end", name |-> name, body |-> << >> ]
Element(name, kind, body) == [ kind |-> kind, name |-> name, body |-> body ]

\* The lines of the template before the items
ChannelLines(p) ==
  << XmlDecl, StartTag("rss"), StartTag("channel"),
     Element("title", "text", esc(Host(p.url))),
     Element("link", "text", esc(p.url)),
     Element("generator", "text", Generator),
     Element("ttl", "text", << "5" >>),        \* CACHE_TTL / 60
     StartTag("image"),
     Element("url", "text", Origin(p.url) \o Favicon),
     EndTag("image"),
     Element("lastBuildDate", "text", Now) >>

\* ItemLines with a description element for every item
ItemLinesAlwaysDesc(it) ==
  << StartTag("item") >>
  \o (IF Truthy(it.title) THEN << Element("title", "text", esc(it.title)) >> ELSE << >>)
  \o (IF Truthy(it.link) THEN << Element("link", "text", esc(it.link)) >> ELSE << >>)
  \o << Element("description", "cdata", it.desc) >>
  \o (IF Truthy(it.pubDate) THEN << Element("pubDate", "text", it.pubDate) >> ELSE << >>)
  \o (IF Truthy(it.link) THEN << Element("guid", "text", esc(it.link)) >> ELSE << >>)
  \o << EndTag("item") >>

\* The lines one iteration of the loop appends for item it
ItemLines(it) ==
  << StartTag("item") >>
  \o (IF Truthy(it.title) THEN << Element("title", "text", esc(it.title)) >> ELSE << >>)
  \o (IF Truthy(it.link) THEN << Element("link", "text", esc(it.link)) >> ELSE << >>)
  \o (IF Truthy(it.desc) THEN << Element("description", "cdata", it.desc) >> ELSE << >>)
  \o (IF Truthy(it.pubDate) THEN << Element("pubDate", "text", it.pubDate) >> ELSE << >>)
  \o (IF Truthy(it.link) THEN << Element("guid", "text", esc(it.link)) >> ELSE << >>)
  \o << EndTag("item") >>

\* buildRss({ params, items }): its[i] is the object items[i] refers to
buildRss(p, its) ==
  [ channel |-> ChannelLines(p),
    items   |-> [ i \in 1..Len(its) |-> ItemLines(its[i]) ],
    tail    |-> << EndTag("channel"), EndTag("rss") >> ]

NoRss == << >>

(***************************************************************************)
(* State of one request.                                                   *)
(***************************************************************************)
VARIABLES
  pc,         \* "parse", "fetch" (upstream fetch pending), "await" (reader.read()
              \* pending), "chunk" (handlers of one body chunk running), "done"
              \* (extractItems returned), "r200", "e400", "e500", "e502" (answered)
  query,      \* the raw query parameters of the request
  params,     \* what parseParams returned
  heap,       \* the item objects allocated so far (current and items hold references)
  current,    \* let current = null: 0, or an index into heap
  items,      \* const items = []: references into heap, in push order
  rawText,    \* let rawText = "" of the date handler
  lastIndex,  \* lastIndex of the four compiled filter regexes
  stack,      \* tokenizer: the open containers, each with the object its element
              \* handler allocated (0: the handler returned early, no onEndTag)
  open,       \* tokenizer: scope of the text node whose chunks are being delivered
  nodes,      \* history, per object of heap: the text nodes and hrefs the field
              \* scopes delivered inside the container that allocated the object
  vocab,      \* the document class: the text chunks, date chunks and hrefs it is
              \* made of, the chunks flagged last, the nesting depth of containers
  left,       \* tokenizer events the document still has
  upstream,   \* outcome of the upstream fetch: "none", "ok", "rejected", "status"
  fetches,    \* history: calls of fetch(params.url, ...) made for the request
  rssXml,     \* what buildRss returned, NoRss before
  trace,      \* the tokenizer events delivered to the request, when a second request runs
  other       \* the request suspended at an await, NoOther when there is none

vars == << pc, query, params, heap, current, items, rawText, lastIndex,
           stack, open, nodes, vocab, left, upstream, fetches, rssXml, trace, other >>

\* current = { _text: "", title: "", desc: "" }
FreshItem ==
  [ _text |-> << >>, title |-> << >>, desc |-> << >>, link |-> UNDEF, pubDate |-> UNDEF ]

ZeroIndex == [ item |-> 0, title |-> 0, link |-> 0, desc |-> 0 ]

NoNodes == [ title |-> << >>, desc |-> << >>, date |-> << >>, href |-> << >> ]

\* The engine state the handlers read and write
Eng ==
  [ heap |-> heap, current |-> current, items |-> items, rawText |-> rawText,
    lastIndex |-> lastIndex, thrown |-> FALSE ]

Throw(st) == [ st EXCEPT !.thrown = TRUE ]

LimitReached(st) == Len(st.items) >= params.limit

(***************************************************************************)
(* matchFilters (src/worker.js 395-400): the tests run in order and stop   *)
(* at the first failure; each test that runs may move its regex lastIndex. *)
(***************************************************************************)
matchFilters(item, filters, li) ==
  LET tItem  == filters.item.set
      rItem  == RegexTest(filters.item, item._text, li.item)
      li1    == IF tItem THEN [ li EXCEPT !.item = RegexLastIndex(filters.item, item._text, li.item) ] ELSE li
      tTitle == (tItem => rItem) /\ filters.title.set
      rTitle == RegexTest(filters.title, item.title, li.title)
      li2    == IF tTitle THEN [ li1 EXCEPT !.title = RegexLastIndex(filters.title, item.title, li.title) ] ELSE li1
      tLink  == (tItem => rItem) /\ (filters.title.set => rTitle) /\ filters.link.set
      rLink  == RegexTest(filters.link, item.link, li.link)
      li3    == IF tLink THEN [ li2 EXCEPT !.link = RegexLastIndex(filters.link, item.link, li.link) ] ELSE li2
      tDesc  == (tItem => rItem) /\ (filters.title.set => rTitle) /\ (filters.link.set => rLink)
                /\ filters.desc.set
      rDesc  == RegexTest(filters.desc, item.desc, li.desc)
      li4    == IF tDesc THEN [ li3 EXCEPT !.desc = RegexLastIndex(filters.desc, item.desc, li.desc) ] ELSE li3
  IN  [ result |-> /\ (tItem => rItem)
                   /\ (filters.title.set => rTitle)
                   /\ (filters.link.set => rLink)
                   /\ (filters.desc.set => rDesc),
        lastIndex |-> li4 ]

(***************************************************************************)
(* The handlers extractItems registers (src/worker.js 142-233).  Each maps *)
(* the engine state to the engine state after the handler; thrown is set   *)
(* when the handler raises a TypeError.                                    *)
(***************************************************************************)

\* element(elem) of the item selector, up to the onEndTag registration
ItemElement(st) ==
  IF LimitReached(st) THEN st
  ELSE [ st EXCEPT !.heap = Append(st.heap, FreshItem),
                   !.current = Len(st.heap) + 1 ]

\* OnEndTag inserting at the front of the result list
OnEndTagUnshift(st) ==
  IF ~ params.filters.defined THEN Throw(st)
  ELSE LET cur == st.heap[st.current]
           match == matchFilters(cur, params.filters, st.lastIndex)
       IN  [ st EXCEPT !.lastIndex = match.lastIndex,
                       !.items = IF (Truthy(cur.title) \/ Truthy(cur.link)) /\ match.result
                                 THEN << st.current >> \o st.items
                                 ELSE st.items ]

\* The end tag handler registered by the item element handler
OnEndTag(st) ==
  IF ~ params.filters.defined THEN Throw(st)
  ELSE LET cur == st.heap[st.current]
           match == matchFilters(cur, params.filters, st.lastIndex)
       IN  [ st EXCEPT !.lastIndex = match.lastIndex,
                       !.items = IF (Truthy(cur.title) \/ Truthy(cur.link)) /\ match.result
                                 THEN Append(st.items, st.current)
                                 ELSE st.items ]

\* ItemText without the test of an item rule
ItemTextAnyRule(st, chunk, last) ==
  IF ~ params.filters.defined THEN Throw(st)
  ELSE IF LimitReached(st) THEN st
  ELSE IF st.current = 0 THEN Throw(st)
  ELSE IF Len(st.heap[st.current]._text) >= CAP_ITEMTEXT THEN st
  ELSE LET t0 == st.heap[st.current]._text
           t1 == IF last THEN t0 \o << " " >> ELSE t0
           t2 == IF chunk # << >> THEN safeCap(t1 \o chunk, CAP_ITEMTEXT) ELSE t1
       IN  [ st EXCEPT !.heap[st.current]._text = t2 ]

\* text(text) of the item selector
ItemText(st, chunk, last) ==
  IF ~ params.filters.defined THEN Throw(st)
  ELSE IF ~ params.filters.item.set THEN st
  ELSE IF LimitReached(st) THEN st
  ELSE IF st.current = 0 THEN Throw(st)
  ELSE IF Len(st.heap[st.current]._text) >= CAP_ITEMTEXT THEN st
  ELSE LET t0 == st.heap[st.current]._text
           t1 == IF last THEN t0 \o << " " >> ELSE t0
           t2 == IF chunk # << >> THEN safeCap(t1 \o chunk, CAP_ITEMTEXT) ELSE t1
       IN  [ st EXCEPT !.heap[st.current]._text = t2 ]

\* text(text) of the title selector
TitleText(st, chunk, last) ==
  IF LimitReached(st) THEN st
  ELSE IF st.current = 0 THEN Throw(st)
  ELSE LET t0 == st.heap[st.current].title
           t1 == IF last THEN t0 \o << " " >> ELSE t0
           c  == Trim(chunk)
           t2 == IF c # << >> THEN safeCap(t1 \o c, CAP_TITLE) ELSE t1
       IN  [ st EXCEPT !.heap[st.current].title = t2 ]

\* LinkElement without the "current.link ||" guard
LinkElementOverwrite(st, href) ==
  IF st.current = 0 THEN Throw(st)
  ELSE IF LimitReached(st) THEN st
  ELSE LET h == IF Truthy(href) /\ StartsWith(href, "/")
                THEN Origin(params.url) \o href ELSE href
       IN  IF Truthy(h) THEN [ st EXCEPT !.heap[st.current].link = h ] ELSE st

\* LinkElement without the resolution against the origin
LinkElementRaw(st, href) ==
  IF st.current = 0 THEN Throw(st)
  ELSE IF Truthy(st.heap[st.current].link) \/ LimitReached(st) THEN st
  ELSE IF Truthy(href) THEN [ st EXCEPT !.heap[st.current].link = href ] ELSE st

\* element(elem) of the link selector; href is NULL when the attribute is missing
LinkElement(st, href) ==
  IF st.current = 0 THEN Throw(st)
  ELSE IF Truthy(st.heap[st.current].link) \/ LimitReached(st) THEN st
  ELSE LET h == IF Truthy(href) /\ StartsWith(href, "/")
                THEN Origin(params.url) \o href ELSE href
       IN  IF Truthy(h) THEN [ st EXCEPT !.heap[st.current].link = h ] ELSE st

\* text(text) of the desc selector
DescText(st, chunk, last) ==
  IF LimitReached(st) THEN st
  ELSE IF st.current = 0 THEN Throw(st)
  ELSE LET t0 == st.heap[st.current].desc
           t1 == IF last THEN t0 \o << " " >> ELSE t0
           c  == Trim(chunk)
           t2 == IF c # << >> THEN safeCap(t1 \o c, CAP_DESC) ELSE t1
       IN  [ st EXCEPT !.heap[st.current].desc = t2 ]

\* text(text) of the date selector
DateText(st, chunk, last) ==
  IF LimitReached(st) THEN st
  ELSE IF st.current = 0 THEN Throw(st)
  ELSE IF Truthy(st.heap[st.current].pubDate) THEN st
  ELSE LET r1 == st.rawText \o chunk
           r2 == safeCap(r1, CAP_DATE)
       IN  IF ~ last THEN [ st EXCEPT !.rawText = r1 ]
           ELSE IF r2 = << >> THEN [ st EXCEPT !.rawText = r2 ]
           ELSE IF DateParses(r2)
           THEN [ st EXCEPT !.rawText = r2, !.heap[st.current].pubDate = ToISOString(r2) ]
           ELSE [ st EXCEPT !.rawText = << >> ]

(***************************************************************************)
(* The link handler of src/unnamed/part_000 (564-582), which accepts the   *)
(* self-reference tokens.  The item element handler (519-530) and the read *)
(* loop of that file are the ones above, line for line.                    *)
(***************************************************************************)
\* const isSelf = params.link === '@' || params.link === '.';
IsSelf(link) == link = << "@" >> \/ link = << "." >>

\* element(elem) of linkSelector
SelfLinkElement(st, href) ==
  IF LimitReached(st) THEN st
  ELSE IF st.current = 0 THEN Throw(st)
  ELSE IF Truthy(st.heap[st.current].link) THEN st
  ELSE LET h == IF Truthy(href) /\ StartsWith(href, "/")
                THEN Origin(params.url) \o href ELSE href
       IN  IF Truthy(h) THEN [ st EXCEPT !.heap[st.current].link = h ] ELSE st

(***************************************************************************)
(* Bounds of the explored documents.                                       *)
(***************************************************************************)
MaxEvents == 7    \* tokenizer events per document
MaxDepth == 2     \* containers open at the same time in a document with nesting
OrderEvents == 10 \* tokenizer events per document with titles and links

\* No request is suspended: the worker serves one request
NoOther == [ pc |-> "none" ]

\* A tokenizer event: its kind, the chunk or href it carries, the last flag
Event(kind, arg, last) == [ kind |-> kind, arg |-> arg, last |-> last ]

\* The events of a request are recorded while another request is served too
Log(ev) == trace' = IF other = NoOther THEN trace ELSE Append(trace, ev)

Commit(st) ==
  /\ heap' = st.heap
  /\ current' = st.current
  /\ items' = st.items
  /\ rawText' = st.rawText
  /\ lastIndex' = st.lastIndex
  /\ pc' = IF st.thrown THEN "e500" ELSE pc

\* The objects whose container is open
OnStack(k) == \E i \in 1..Len(stack) : stack[i] = k

\* The history of text nodes: a chunk starts a node or extends the open one
AddChunk(ns, chunk) ==
  IF open = "none" \/ ns = << >> THEN Append(ns, chunk)
  ELSE [ ns EXCEPT ![Len(ns)] = @ \o chunk ]

AddTitle(chunk) ==
  [ k \in 1..Len(nodes) |->
      IF OnStack(k) THEN [ nodes[k] EXCEPT !.title = AddChunk(@, chunk) ] ELSE nodes[k] ]
AddDesc(chunk) ==
  [ k \in 1..Len(nodes) |->
      IF OnStack(k) THEN [ nodes[k] EXCEPT !.desc = AddChunk(@, chunk) ] ELSE nodes[k] ]
AddDate(chunk) ==
  [ k \in 1..Len(nodes) |->
      IF OnStack(k) THEN [ nodes[k] EXCEPT !.date = AddChunk(@, chunk) ] ELSE nodes[k] ]
AddHref(href) ==
  [ k \in 1..Len(nodes) |->
      IF OnStack(k) THEN [ nodes[k] EXCEPT !.href = Append(@, href) ] ELSE nodes[k] ]

(***************************************************************************)
(* handleFeed (src/worker.js 41-69) inside the try of fetch (21-26):       *)
(* parse the query, fetch the page, extract, serialize.                    *)
(***************************************************************************)
ParseParams ==
  /\ pc = "parse"
  /\ IF ParseStatus(query) # 0
     THEN pc' = "e400" /\ UNCHANGED params
     ELSE pc' = "fetch" /\ params' = parseParams(query)
  /\ UNCHANGED << other, trace, upstream, fetches, rssXml, query, heap, current, items, rawText, lastIndex, stack, open,
                  nodes, vocab, left >>

\* The headers of the upstream request before the user's
DefaultHeaders ==
  << [ name  |-> << "U", "s", "e", "r", "-", "A", "g", "e", "n", "t" >>,
       value |-> << "R", "S", "S", "i", "b", "l", "e", "/", "1", ".", "0", " ", "(", "+", "h", "t", "t",
                "p", "s", ":", "/", "/", "r", "s", "s", "i", "b", "l", "e", ".", "h",
                "a", "d", "i", "d", ".", "d", "e", "v", "/", ")" >> ],
     [ name  |-> << "A", "c", "c", "e", "p", "t" >>,
       value |-> << "t", "e", "x", "t", "/", "h", "t", "m", "l", ",", "a", "p", "p", "l", "i", "c", "a",
                "t", "i", "o", "n", "/", "x", "h", "t", "m", "l", "+", "x", "m", "l",
                ",", "a", "p", "p", "l", "i", "c", "a", "t", "i", "o", "n", "/", "x",
                "m", "l", ";", "q", "=", "0", ".", "9", ",", "*", "/", "*", ";", "q",
                "=", "0", ".", "8" >> ] >>

RECURSIVE Spread(_, _)
Spread(out, hs) ==
  IF hs = << >> THEN out
  ELSE Spread(PutHeader(out, Head(hs).name, Head(hs).value), Tail(hs))

\* headers: { 'User-Agent': ..., 'Accept': ..., ...params.headers }
RequestHeaders(p) == Spread(DefaultHeaders, p.headers)

\* What the upstream fetch may do: resolve with an ok response, reject, or
\* resolve with a response whose status is not 2xx
FetchOutcomes == { "ok", "rejected", "status" }

\* Without the test of upstream.ok
FetchIgnoringStatus ==
  /\ pc = "fetch"
  /\ \E outcome \in FetchOutcomes :
       /\ upstream' = outcome
       /\ pc' = IF outcome = "rejected" THEN "e502" ELSE "await"
  /\ fetches' = fetches + 1
  /\ UNCHANGED << other, trace, rssXml, query, params, heap, current, items, rawText, lastIndex,
                  stack, open, nodes, vocab, left >>

\* await fetch(params.url, ...).catch(...); if (!upstream.ok) throw http(502, ...)
Fetch ==
  /\ pc = "fetch"
  /\ \E outcome \in FetchOutcomes :
       /\ upstream' = outcome
       /\ pc' = IF outcome = "ok" THEN "await" ELSE "e502"
  /\ fetches' = fetches + 1
  /\ UNCHANGED << other, trace, rssXml, query, params, heap, current, items, rawText, lastIndex,
                  stack, open, nodes, vocab, left >>

\* ResponseStatus without "|| 500": an undefined status is the default 200
ResponseStatusOwnOnly ==
  CASE pc = "r200" -> 200
    [] pc = "e400" -> 400
    [] pc = "e502" -> 502
    [] pc = "e500" -> 200
    [] OTHER -> 0

\* The status of the response (src/worker.js 21-26, 71): err.status || 500
ResponseStatus ==
  CASE pc = "r200" -> 200
    [] pc = "e400" -> 400
    [] pc = "e502" -> 502
    [] pc = "e500" -> 500
    [] OTHER -> 0

(***************************************************************************)
(* The read loop of extractItems (src/worker.js 235-249).                  *)
(***************************************************************************)
\* reader.read() is called and a body chunk arrives
ReadChunk ==
  /\ pc = "await"
  /\ left > 0
  /\ pc' = "chunk"
  /\ UNCHANGED << other, trace, upstream, fetches, rssXml, query, params, heap, current, items, rawText, lastIndex, stack,
                  open, nodes, vocab, left >>

\* EndChunk without the test of items.length in the loop
EndChunkReadOn ==
  /\ pc = "chunk"
  /\ pc' = "await"
  /\ UNCHANGED << other, trace, upstream, fetches, rssXml, query, params, heap, current, items, rawText,
                  lastIndex, stack, open, nodes, vocab, left >>

\* The handlers of the chunk have run; read() resolves with done = false
EndChunk ==
  /\ pc = "chunk"
  /\ pc' = IF params.stream /\ Len(items) >= params.limit THEN "done" ELSE "await"
  /\ UNCHANGED << other, trace, upstream, fetches, rssXml, query, params, heap, current, items, rawText, lastIndex, stack,
                  open, nodes, vocab, left >>

\* Eof without the test of done in the loop: the loop reads again
EofReadOn ==
  /\ pc = "await"
  /\ open = "none"
  /\ pc' = "await"
  /\ UNCHANGED << other, trace, upstream, fetches, rssXml, query, params, heap, current, items, rawText, lastIndex, stack,
                  open, nodes, vocab, left >>

\* read() (or transformed.text()) rejects: the upstream body failed
ReadFails ==
  /\ pc = "await"
  /\ pc' = "e500"
  /\ UNCHANGED << other, trace, upstream, fetches, rssXml, query, params, heap, current, items, rawText, lastIndex, stack,
                  open, nodes, vocab, left >>

\* read() resolves with done = true (or transformed.text() resolves)
Eof ==
  /\ pc = "await"
  /\ open = "none"
  /\ pc' = "done"
  /\ UNCHANGED << other, trace, upstream, fetches, rssXml, query, params, heap, current, items, rawText, lastIndex, stack,
                  open, nodes, vocab, left >>

(***************************************************************************)
(* Tokenizer events inside a chunk, each running the handlers it matches.  *)
(***************************************************************************)
\* Start tag of an element matching the item selector
OpenItem ==
  /\ pc = "chunk" /\ left > 0 /\ open = "none"
  /\ Len(stack) < vocab.depth
  /\ LET st == ItemElement(Eng)
     IN  /\ Commit(st)
         /\ stack' = Append(stack, IF LimitReached(Eng) THEN 0 ELSE st.current)
         /\ nodes' = IF LimitReached(Eng) THEN nodes ELSE Append(nodes, NoNodes)
  /\ Log(Event("open", NULL, FALSE))
  /\ left' = left - 1
  /\ UNCHANGED << other, upstream, fetches, rssXml, query, params, open, vocab >>

\* End tag of the innermost open container
CloseItem ==
  /\ pc = "chunk" /\ left > 0 /\ open = "none"
  /\ stack # << >>
  /\ Commit(IF stack[Len(stack)] # 0 THEN OnEndTag(Eng) ELSE Eng)
  /\ stack' = SubSeq(stack, 1, Len(stack) - 1)
  /\ Log(Event("close", NULL, FALSE))
  /\ left' = left - 1
  /\ UNCHANGED << other, upstream, fetches, rssXml, query, params, open, nodes, vocab >>

\* Start tag of an element matching "<item> <link>"
LinkTag ==
  /\ pc = "chunk" /\ left > 0 /\ open = "none"
  /\ stack # << >>
  /\ Truthy(params.link)
  /\ \E href \in vocab.href :
       /\ Commit(LinkElement(Eng, href))
       /\ nodes' = AddHref(href)
       /\ Log(Event("link", href, FALSE))
  /\ left' = left - 1
  /\ UNCHANGED << other, upstream, fetches, rssXml, query, params, stack, open, vocab >>

TextGuard(scope) ==
  /\ pc = "chunk" /\ left > 0
  /\ stack # << >>
  /\ open \in { "none", scope }

\* The chunks the tokenizer may deliver next in a scope: a non-empty chunk, or
\* the chunk flagged last; an empty chunk only ends a node in progress
ChunkGuard(scope, chunk, last) ==
  /\ chunk # << >> \/ (last /\ open = scope)
  /\ last => chunk \in vocab.last

\* A chunk of a text node inside a container and outside every field scope
PlainChunk ==
  /\ TextGuard("plain")
  /\ \E chunk \in vocab.text, last \in BOOLEAN :
       /\ ChunkGuard("plain", chunk, last)
       /\ Commit(ItemText(Eng, chunk, last))
       /\ open' = IF last THEN "none" ELSE "plain"
       /\ Log(Event("plain", chunk, last))
  /\ left' = left - 1
  /\ UNCHANGED << other, upstream, fetches, rssXml, query, params, stack, nodes, vocab >>

\* A chunk of a text node matched by "<item> <title>"
TitleChunk ==
  /\ TextGuard("title")
  /\ Truthy(params.title)
  /\ \E chunk \in vocab.text, last \in BOOLEAN :
       /\ ChunkGuard("title", chunk, last)
       /\ LET st == ItemText(Eng, chunk, last)
          IN  Commit(IF st.thrown THEN st ELSE TitleText(st, chunk, last))
       /\ open' = IF last THEN "none" ELSE "title"
       /\ nodes' = AddTitle(chunk)
       /\ Log(Event("title", chunk, last))
  /\ left' = left - 1
  /\ UNCHANGED << other, upstream, fetches, rssXml, query, params, stack, vocab >>

\* A chunk of a text node of an element the desc selector of the request
\* matches; the desc handler runs when parseParams kept the selector
DescChunk ==
  /\ TextGuard("desc")
  /\ Truthy(GetTrim(query.desc))
  /\ \E chunk \in vocab.text, last \in BOOLEAN :
       /\ ChunkGuard("desc", chunk, last)
       /\ LET st == ItemText(Eng, chunk, last)
          IN  Commit(IF st.thrown \/ ~ Truthy(params.desc) THEN st
                     ELSE DescText(st, chunk, last))
       /\ open' = IF last THEN "none" ELSE "desc"
       /\ nodes' = AddDesc(chunk)
       /\ Log(Event("desc", chunk, last))
  /\ left' = left - 1
  /\ UNCHANGED << other, upstream, fetches, rssXml, query, params, stack, vocab >>

\* A chunk of a text node of an element the date selector of the request
\* matches; the date handler runs when parseParams kept the selector
DateChunk ==
  /\ TextGuard("date")
  /\ Truthy(GetTrim(query.date))
  /\ \E chunk \in vocab.date, last \in BOOLEAN :
       /\ ChunkGuard("date", chunk, last)
       /\ LET st == ItemText(Eng, chunk, last)
          IN  Commit(IF st.thrown \/ ~ Truthy(params.date) THEN st
                     ELSE DateText(st, chunk, last))
       /\ open' = IF last THEN "none" ELSE "date"
       /\ nodes' = AddDate(chunk)
       /\ Log(Event("date", chunk, last))
  /\ left' = left - 1
  /\ UNCHANGED << other, upstream, fetches, rssXml, query, params, stack, vocab >>

(***************************************************************************)
(* Tokenizer events of src/unnamed/part_000: containers carry an href      *)
(* attribute (NULL: none).  With a self-reference token the link handler   *)
(* is bound to the item selector and runs after the item element handler,  *)
(* in registration order.                                                  *)
(***************************************************************************)
\* OpenItemHref with the link handler run before the item element handler
OpenItemHrefLinkFirst ==
  /\ pc = "chunk" /\ left > 0 /\ open = "none"
  /\ Len(stack) < vocab.depth
  /\ \E href \in vocab.href :
       LET self == Truthy(params.link) /\ IsSelf(params.link)
           st1 == IF self /\ current # 0 THEN SelfLinkElement(Eng, href) ELSE Eng
           st2 == ItemElement(st1)
       IN  /\ Commit(st2)
           /\ stack' = Append(stack, IF LimitReached(Eng) THEN 0 ELSE st2.current)
           /\ nodes' = IF LimitReached(Eng) THEN nodes
                       ELSE Append(nodes, [ NoNodes EXCEPT !.href = IF self THEN << href >> ELSE << >> ])
           /\ Log(Event("openHref", href, FALSE))
  /\ left' = left - 1
  /\ UNCHANGED << other, upstream, fetches, rssXml, query, params, open, vocab >>

\* Start tag of an element matching the item selector
OpenItemHref ==
  /\ pc = "chunk" /\ left > 0 /\ open = "none"
  /\ Len(stack) < vocab.depth
  /\ \E href \in vocab.href :
       LET self == Truthy(params.link) /\ IsSelf(params.link)
           st1 == ItemElement(Eng)
           st2 == IF self THEN SelfLinkElement(st1, href) ELSE st1
       IN  /\ Commit(st2)
           /\ stack' = Append(stack, IF LimitReached(Eng) THEN 0 ELSE st1.current)
           /\ nodes' = IF LimitReached(Eng) THEN nodes
                       ELSE Append(nodes, [ NoNodes EXCEPT !.href = IF self THEN << href >> ELSE << >> ])
           /\ Log(Event("openHref", href, FALSE))
  /\ left' = left - 1
  /\ UNCHANGED << other, upstream, fetches, rssXml, query, params, open, vocab >>

\* Start tag of an element with an href inside a container: the link selector
\* matches it unless it is a self-reference token, which binds no descendant
InnerLinkTag ==
  /\ pc = "chunk" /\ left > 0 /\ open = "none"
  /\ stack # << >>
  /\ Truthy(params.link)
  /\ \E href \in vocab.href :
       /\ IF IsSelf(params.link)
          THEN Commit(Eng) /\ nodes' = nodes
          ELSE Commit(SelfLinkElement(Eng, href)) /\ nodes' = AddHref(href)
       /\ Log(Event("innerLink", href, FALSE))
  /\ left' = left - 1
  /\ UNCHANGED << other, upstream, fetches, rssXml, query, params, stack, open, vocab >>

(***************************************************************************)
(* The end of handleFeed (src/worker.js 68-83).                            *)
(***************************************************************************)
\* const rssXml = buildRss({ params, items }); return new Response(rssXml, ...)
BuildRss ==
  /\ pc = "done"
  /\ rssXml' = buildRss(params, [ i \in 1..Len(items) |-> heap[items[i]] ])
  /\ pc' = "r200"
  /\ UNCHANGED << other, trace, upstream, fetches, query, params, heap, current, items, rawText,
                  lastIndex, stack, open, nodes, vocab, left >>

(***************************************************************************)
(* Requests and documents explored.                                        *)
(***************************************************************************)
Url == << "h", "t", "t", "p", ":", "/", "/", "s", "/", "p" >>
Sel == << "d" >>

\* The same origin written with padding, in upper case, with a query and no path
PaddedUrl == << " ", "H", "T", "T", "P", ":", "/", "/", "S", "?", "q", " " >>

BaseQuery ==
  [ url |-> Url, item |-> Sel, title |-> NULL, link |-> NULL, desc |-> NULL,
    date |-> NULL, mode |-> NULL, limit |-> NULL, stream |-> NULL, headers |-> NULL,
    filters |-> NULL ]

Run(n) == [ i \in 1..n |-> "a" ]

Year == << "2", "0", "2", "4" >>
Time == << "T", "1", "0", ":", "0", "0" >>

\* lol-html flags only an empty chunk as the last one of a text node
FlushVocab(text, date, href, depth) ==
  [ text |-> text, date |-> date, href |-> href, last |-> { << >> }, depth |-> depth ]

\* A tokenizer that may flag any chunk as the last one of its text node
AnyLastVocab(text, date, href, depth) ==
  [ text |-> text, date |-> date, href |-> href, last |-> text \cup date, depth |-> depth ]

InitWith(queries, vocabs, events) ==
  /\ pc = "parse"
  /\ query \in queries
  /\ params = NoParams
  /\ heap = << >>
  /\ current = 0
  /\ items = << >>
  /\ rawText = << >>
  /\ lastIndex = ZeroIndex
  /\ stack = << >>
  /\ open = "none"
  /\ nodes = << >>
  /\ vocab \in vocabs
  /\ left = events
  /\ upstream = "none"
  /\ fetches = 0
  /\ rssXml = NoRss
  /\ trace = << >>
  /\ other = NoOther

\* Values of the limit parameter
LimitInputs ==
  { NULL,
    << >>,
    << "0" >>,
    << "-", "3" >>,
    << "1" >>,
    << "2" >>,
    << "7" >>,
    << "2", "5" >>,
    << "2", "6" >>,
    << "3", "0", "0" >>,
    << " " >>,
    << "a", "b", "c" >>,
    << "I", "n", "f", "i", "n", "i", "t", "y" >>,
    << "-", "I", "n", "f", "i", "n", "i", "t", "y" >>,
    << "+", "5" >> }

\* A date line, a title line in mixed case, a line without "=", a desc line
\* with an empty pattern and a link line whose value is no regex literal
MixedBlock ==
  << "d", "a", "t", "e", "=", "/", "a", "/", "\n", "T", "i", "t", "l", "e", "=", "/", "b", "/", "\n", "x", "\n", "d", "e", "s", "c", "=", "/", "/", "\n", "l", "i", "n", "k", "=", "a" >>

\* Values of the filters parameter: one rule or several lines
FilterInputs ==
  { NULL,
    << "t", "i", "t", "l", "e", "=", "/", "^", "b", "/", "i" >>,
    << "x" >>,
    << "d", "a", "t", "e", "=", "/", "a", "/" >>,
    << "t", "i", "t", "l", "e", "=", "/", "(", "/" >>,
    << "t", "i", "t", "l", "e", "=", "/", "a", "/", "z" >>,
    << "t", "i", "t", "l", "e", "=", "a" >>,
    << "t", "i", "t", "l", "e", "=", "/", "/" >>,
    << "=", "/", "a", "/" >>,
    << "T", "I", "T", "L", "E", " ", "=", " ", "/", "a", "/", "g" >>,
    << "x", "\n", "t", "i", "t", "l", "e", "=", "/", "(", "/" >>,
    << "l", "i", "n", "k", "=", "/", ".", "/", "\r", "\n", "d", "e", "s", "c", "=", "/", "a", "$", "/" >>,
    << "i", "t", "e", "m", "=", "/", "a", "/", "\n", "i", "t", "e", "m", "=", "/", "(", "/" >>,
    << "t", "i", "t", "l", "e", "=", "/", "a", "/", "\n", "\n", "t", "i", "t", "l", "e", "=", "/", "b", "/", "y" >>,
    MixedBlock }

ParamQueries ==
  { [ BaseQuery EXCEPT !.url = u, !.item = i, !.title = t, !.link = l,
                       !.limit = n, !.filters = f ] :
      u \in { Url, << " " >> }, i \in { NULL, Sel }, t \in { NULL, << " " >>, Sel },
      l \in { NULL, Sel }, n \in LimitInputs, f \in FilterInputs }

\* parseParams on every query of ParamQueries, then the fetch and an empty page
InitParams == InitWith(ParamQueries, { FlushVocab({ << >> }, { << >> }, { NULL }, 1) }, 0)
NextParams == ParseParams \/ Fetch \/ Eof
SpecParams == InitParams /\ [][NextParams]_vars

\* Link-only requests over documents of containers and link elements
LinkQueries ==
  { [ BaseQuery EXCEPT !.link = Sel, !.limit = n, !.stream = s ] :
      n \in { NULL, << "1" >>, << "2" >> }, s \in { NULL, StreamOff } }
    \cup { [ BaseQuery EXCEPT !.link = Sel, !.url = PaddedUrl ] }

Hrefs == { NULL, << >>, << "/", "x" >>, << "y" >> }

InitLink ==
  InitWith(LinkQueries,
           { FlushVocab({ << >> }, { << >> }, Hrefs, d) : d \in { 1, MaxDepth } }, MaxEvents)
NextLink == ParseParams \/ Fetch \/ ReadChunk \/ EndChunk \/ Eof \/ OpenItem \/ CloseItem \/ LinkTag
SpecLink == InitLink /\ [][NextLink]_vars

(***************************************************************************)
(* Properties.                                                             *)
(***************************************************************************)
IsBlank(n) == \A i \in 1..Len(n) : n[i] \in WhiteSpace
IsWord(n) == n # << >> /\ \A i \in 1..Len(n) : n[i] \notin WhiteSpace

Parsed == pc \notin { "parse", "e400" }

\* C1: the result list never holds more than limit items (here for every
\* effective limit inside [1, MAX_LIMIT]), however containers nest.
C1_ItemsWithinLimit ==
  (Parsed /\ params.limit \in 1..MAX_LIMIT) => Len(items) <= params.limit

\* C2: the effective limit produced by parseParams is inside [1, MAX_LIMIT].
C2_LimitInRange == Parsed => params.limit \in 1..MAX_LIMIT

\* The link the first href-bearing element of hs gives, UNDEF when there is none
Resolve(h) == IF StartsWith(h, "/") THEN Origin(params.url) \o h ELSE h

FirstLink(hs) ==
  LET ok == { i \in 1..Len(hs) : Truthy(hs[i]) }
  IN  IF ok = {} THEN UNDEF
      ELSE Resolve(hs[CHOOSE i \in ok : \A j \in ok : i <= j])

Flat == vocab.depth = 1

\* C10: the link of every item (while it is collected and once it is in the
\* result list) is the href of the first href-bearing link element inside its
\* container; elements without href do not consume the slot and later elements
\* never overwrite it.  Stated for documents whose containers do not nest.
C10_FirstHrefWins ==
  Flat => \A k \in 1..Len(heap) : heap[k].link = FirstLink(nodes[k].href)

\* C10 witness: an item of the result list kept the second of three link
\* elements, the first having no href
C10_Witness ==
  /\ Flat
  /\ \E i \in 1..Len(items) :
        /\ nodes[items[i]].href = << NULL, << "y" >>, << "/", "x" >> >>
        /\ heap[items[i]].link = << "y" >>

\* A line of the form  key = /pattern/flags  with one of the four keys, in any
\* letter case, and a pattern that is not empty
RuleLine(rawLine) ==
  LET t == Trim(rawLine)
  IN  \E e \in 2..Len(t) :
        /\ t[e] = "=" /\ \A i \in 1..(e - 1) : t[i] # "="
        /\ ToLowerCase(Trim(SubSeq(t, 1, e - 1))) \in FilterKeys
        /\ LET v == Trim(SubSeq(t, e + 1, Len(t)))
           IN  /\ Len(v) >= 3 /\ v[1] = "/"
               /\ \E j \in 3..Len(v) : v[j] = "/"

\* The four rules of a parseFilters result
RulesOf(f) == << f.item, f.title, f.link, f.desc >>

\* C21: the rules parseFilters yields are the rules of the lines of the form
\* key=/pattern/flags with key item, title, link or desc (in any letter case)
\* and a non-empty pattern; every other line (key date or unknown, no "=",
\* value that is no regex literal, empty pattern) contributes no rule and
\* leaves the rules of the other lines as they are without it.
C21_RuleLinesOnly ==
  (Parsed /\ Truthy(GetTrim(query.filters))) =>
    LET lines == SplitLines(Trim(query.filters))
    IN  /\ RulesOf(params.filters) = RulesOf(FoldRules(EmptyFilters, SelectSeq(lines, RuleLine)))
        /\ \A i \in 1..Len(lines) : ~ RuleLine(lines[i]) => ParseFilterLine(lines[i]) = NoRule

\* C21 witness: of the five lines of MixedBlock only the title line gave a rule
C21_Witness ==
  /\ Parsed /\ query.filters = MixedBlock
  /\ params.filters.title = [ set |-> TRUE, source |-> << "b" >>, flags |-> << >> ]
  /\ ~ params.filters.item.set /\ ~ params.filters.link.set /\ ~ params.filters.desc.set

\* A parameter that is missing or holds whitespace only
Blank(v) == v = NULL \/ IsBlank(v)

\* C14: a request whose url or _item is missing or blank, or whose title and
\* link are both missing or blank, gets no status other than 400; no upstream
\* fetch is made for it and no extraction is started.
C14_Rejected ==
  ( \/ Blank(query.url) \/ Blank(query.item)
    \/ (Blank(query.title) /\ Blank(query.link)) )
  => /\ pc \in { "parse", "e400" }
     /\ ResponseStatus \in { 0, 400 }
     /\ fetches = 0 /\ upstream = "none"
     /\ heap = << >> /\ items = << >> /\ rssXml = NoRss

\* C14 witness: a request with url and _item whose title is blank and whose
\* link is missing has been answered with 400
C14_Witness ==
  /\ query.url = Url /\ query.item = Sel
  /\ query.title = << " " >> /\ query.link = NULL
  /\ ResponseStatus = 400

\* The origin of both source urls of LinkQueries
HttpS == << "h", "t", "t", "p", ":", "/", "/", "s" >>

\* The tokenizer delivers a link element with this href
LinkStep(h) == pc = "chunk" /\ nodes' = AddHref(h) /\ nodes' # nodes

\* C11: when a link element is delivered while the link of the item is not
\* set and the limit is not reached, an href beginning with "/" is stored as
\* the origin of the source url followed by the href, and every other
\* non-empty href is stored unchanged.
C11_HrefResolved ==
  [][ \A h \in vocab.href :
        ( /\ LinkStep(h) /\ Truthy(h)
          /\ current # 0 /\ ~ Truthy(heap[current].link) /\ ~ LimitReached(Eng) )
        => heap'[current].link = IF h[1] = "/" THEN HttpS \o h ELSE h ]_vars

\* C11 witness: the result list holds an item whose link was resolved against
\* the origin of the source url and an item whose link is the href as it was
C11_Witness ==
  /\ query.url = PaddedUrl
  /\ \E i, j \in 1..Len(items) :
        /\ nodes[items[i]].href = << << "/", "x" >> >>
        /\ heap[items[i]].link = HttpS \o << "/", "x" >>
        /\ nodes[items[j]].href = << << "y" >> >>
        /\ heap[items[j]].link = << "y" >>

\* C13: in streaming mode, when a read completes and the result list holds
\* limit items, the read loop is left: extractItems returns, and once it has
\* returned no read is issued and no handler runs, whatever the document
\* still holds.
C13_StopsReading ==
  [][ /\ ( /\ pc = "chunk" /\ pc' \notin { "chunk", "e500" }
           /\ params.stream /\ Len(items) >= params.limit )
         => pc' = "done"
      /\ pc = "done" => (pc' \notin { "await", "chunk" } /\ left' = left) ]_vars

\* C13 witness: a streaming request is done with limit items while the
\* document still has events that were never read
C13_Witness ==
  /\ pc = "done" /\ params.stream
  /\ Len(items) >= params.limit
  /\ Flat /\ left > 0

(***************************************************************************)
(* Order of the result list: requests with a title and a link selector     *)
(* over documents long enough for two containers with a title and a link.  *)
(***************************************************************************)
OrderQueries ==
  { [ BaseQuery EXCEPT !.title = Sel, !.link = Sel, !.limit = n ] : n \in { NULL, << "1" >> } }

InitOrder ==
  InitWith(OrderQueries,
           { FlushVocab({ << >>, << "a" >> }, { << >> }, { NULL, << "y" >> }, d) :
               d \in { 1, MaxDepth } },
           OrderEvents)
NextOrder ==
  ParseParams \/ Fetch \/ ReadChunk \/ EndChunk \/ Eof \/ OpenItem \/ CloseItem
    \/ LinkTag \/ TitleChunk
SpecOrder == InitOrder /\ [][NextOrder]_vars

\* The container that allocated object k has a title node with text and a link
\* element with an href
HasTitleAndLink(k) ==
  /\ \E i \in 1..Len(nodes[k].title) : ~ IsBlank(nodes[k].title[i])
  /\ \E i \in 1..Len(nodes[k].href) : Truthy(nodes[k].href[i])

\* The document read so far is two containers, one after the other and both
\* closed, each with a title and a link
TwoContainers ==
  /\ Flat /\ Len(heap) = 2 /\ stack = << >> /\ open = "none"
  /\ HasTitleAndLink(1) /\ HasTitleAndLink(2)

\* C12: the result list only grows at its end; in a document without nesting
\* its items are in the order in which their containers opened and closed;
\* and two containers with a title and a link each, under limit 5, give
\* exactly those two items, in document order, with title and link set.
C12_DocumentOrder ==
  /\ [][ /\ Len(items') >= Len(items)
         /\ SubSeq(items', 1, Len(items)) = items ]_vars
  /\ [](Flat => \A i, j \in 1..Len(items) : i < j => items[i] < items[j])
  /\ []((TwoContainers /\ params.limit = 5) =>
          /\ items = << 1, 2 >>
          /\ \A k \in 1..2 : heap[k].title # << >> /\ Truthy(heap[k].link))

\* C12 witness: both containers of such a document are in the result list
C12_Witness ==
  /\ TwoContainers /\ params.limit = 5
  /\ items = << 1, 2 >>
  /\ pc = "done"

\* C23: no step changes a field of an item that is in the result list,
\* whether or not containers nest.
C23_FinalizedIsFrozen ==
  [][ \A i \in 1..Len(items) : heap'[items[i]] = heap[items[i]] ]_vars

\* C24: no accumulator is in the result list twice: every container that was
\* opened contributes at most one item, appended at its own close.
C24_AppendedOnce ==
  \A i, j \in 1..Len(items) : i < j => items[i] # items[j]

(***************************************************************************)
(* Limits: requests with a title and a link selector whose limit is 1, 0   *)
(* or negative, over flat and nested documents.                            *)
(***************************************************************************)
LimitQueries ==
  { [ BaseQuery EXCEPT !.title = Sel, !.link = Sel, !.limit = n ] :
      n \in { << "1" >>, << "0" >>, << "-", "3" >> } }

InitLimit ==
  InitWith(LimitQueries,
           { FlushVocab({ << >>, << "a" >> }, { << >> }, { NULL, << "y" >> }, d) :
               d \in { 1, MaxDepth } },
           MaxEvents)
NextLimit ==
  ParseParams \/ Fetch \/ ReadChunk \/ EndChunk \/ Eof \/ OpenItem \/ CloseItem
    \/ LinkTag \/ TitleChunk
SpecLimit == InitLimit /\ [][NextLimit]_vars

\* C25: once the result list holds limit items, no tokenizer event (open,
\* close, text or link) changes the extraction state: no accumulator is
\* allocated and the result list, every item, the current accumulator, the
\* date buffer and the filters stay as they are.
C25_FrozenAtLimit ==
  [][ (pc = "chunk" /\ Len(items) >= params.limit)
      => UNCHANGED << heap, current, items, rawText, lastIndex >> ]_vars

\* C26: for every limit parseParams produces and every event sequence, no
\* handler of the extraction throws: the request is never answered with 500.
C26_NoExtractionError == pc # "e500"

(***************************************************************************)
(* Title and description text: requests with a title selector, or with a   *)
(* title and a desc selector in full mode, over flat documents delivered   *)
(* the way lol-html does (content chunks, then an empty last chunk).       *)
(***************************************************************************)
TextQueries ==
  { [ BaseQuery EXCEPT !.title = Sel ],
    [ BaseQuery EXCEPT !.title = Sel, !.desc = Sel, !.mode = ModeFull ] }

TextChunks == { << >>, << "a" >>, << " " >>, << "B", " " >>, Run(CAP_DESC) }

InitText == InitWith(TextQueries, { FlushVocab(TextChunks, { << >> }, { NULL }, 1) }, MaxEvents)
NextText ==
  ParseParams \/ Fetch \/ ReadChunk \/ EndChunk \/ Eof \/ OpenItem \/ CloseItem
    \/ TitleChunk \/ DescChunk
SpecText == InitText /\ [][NextText]_vars

\* The engine state of a fresh item, for replaying text nodes
FreshEng ==
  [ heap |-> << FreshItem >>, current |-> 1, items |-> << >>, rawText |-> << >>,
    lastIndex |-> ZeroIndex, thrown |-> FALSE ]

\* A text node delivered unsplit: one content chunk (and, from lol-html, the
\* empty last chunk), or one chunk flagged last
WholeTitleNode(st, n) ==
  IF vocab.last = { << >> }
  THEN TitleText(TitleText(st, n, FALSE), << >>, TRUE)
  ELSE TitleText(st, n, TRUE)

WholeDescNode(st, n) ==
  IF vocab.last = { << >> }
  THEN DescText(DescText(st, n, FALSE), << >>, TRUE)
  ELSE DescText(st, n, TRUE)

RECURSIVE UnsplitTitle(_, _)
UnsplitTitle(st, ns) ==
  IF ns = << >> THEN st.heap[1].title
  ELSE UnsplitTitle(WholeTitleNode(st, Head(ns)), Tail(ns))

RECURSIVE UnsplitDesc(_, _)
UnsplitDesc(st, ns) ==
  IF ns = << >> THEN st.heap[1].desc
  ELSE UnsplitDesc(WholeDescNode(st, Head(ns)), Tail(ns))

\* C5: once its text nodes are complete, the title and the description of an
\* item are the strings the same nodes give when each is delivered unsplit.
C5_ChunkInvariant ==
  (Flat /\ open = "none") =>
    \A k \in 1..Len(heap) :
      /\ heap[k].title = UnsplitTitle(FreshEng, nodes[k].title)
      /\ heap[k].desc = UnsplitDesc(FreshEng, nodes[k].desc)

RECURSIVE JoinWords(_)
JoinWords(ns) ==
  IF ns = << >> THEN << >>
  ELSE IF IsBlank(Head(ns)) THEN JoinWords(Tail(ns))
  ELSE LET rest == JoinWords(Tail(ns))
       IN  IF rest = << >> THEN Head(ns) ELSE Head(ns) \o << " " >> \o rest

TotalLen(ns) == IF ns = << >> THEN 0 ELSE Len(JoinWords(ns))

\* C6: when every text node of the title scope is a word or is whitespace
\* only, the title is (up to leading and trailing whitespace) the words in
\* document order with exactly one space between consecutive ones.
C6_OneSpace ==
  Flat =>
    \A k \in 1..Len(heap) :
      ( /\ \A i \in 1..Len(nodes[k].title) :
              IsBlank(nodes[k].title[i]) \/ IsWord(nodes[k].title[i])
        /\ TotalLen(nodes[k].title) <= CAP_TITLE )
      => Trim(heap[k].title) = JoinWords(nodes[k].title)

\* C7: the accumulated text of every field of every item is at most its cap.
C7_WithinCaps ==
  /\ \A k \in 1..Len(heap) :
        /\ Len(heap[k].title) <= CAP_TITLE
        /\ Len(heap[k].desc) <= CAP_DESC
        /\ Len(heap[k]._text) <= CAP_ITEMTEXT
  /\ open # "date" => Len(rawText) <= CAP_DATE

\* C8: the title, description and item text of every item of the result list
\* have no leading and no trailing whitespace.
C8_Trimmed ==
  \A i \in 1..Len(items) :
    /\ Trim(heap[items[i]].title) = heap[items[i]].title
    /\ Trim(heap[items[i]].desc) = heap[items[i]].desc
    /\ Trim(heap[items[i]]._text) = heap[items[i]]._text

(***************************************************************************)
(* Modes: requests that supply title, desc and date selectors under every  *)
(* spelling of the mode, over flat documents with title, desc and date     *)
(* nodes.                                                                  *)
(***************************************************************************)
ModeInputs ==
  { NULL, ModeLite, << "x" >>, << "F", "u", "l", "l" >>, << "A", "D", "V", "A", "N", "C", "E", "D" >>, << " ", "f", "u", "l", "l" >> }

ModeQueries ==
  { [ BaseQuery EXCEPT !.title = Sel, !.desc = Sel, !.date = Sel, !.mode = m ] :
      m \in ModeInputs }

InitMode ==
  InitWith(ModeQueries, { FlushVocab({ << >>, << "a" >> }, { << >>, Year }, { NULL }, 1) },
           MaxEvents)
NextMode ==
  ParseParams \/ Fetch \/ ReadChunk \/ EndChunk \/ Eof \/ OpenItem \/ CloseItem
    \/ TitleChunk \/ DescChunk \/ DateChunk
SpecMode == InitMode /\ [][NextMode]_vars

\* The mode parameter spells full or advanced, in any letter case
FullOrAdvanced ==
  query.mode # NULL /\ ToLowerCase(query.mode) \in { ModeFull, ModeAdvanced }

\* C16: unless the mode parameter is full or advanced (in any letter case),
\* the desc and date selectors are dropped and no item ever has a
\* description or a pubDate, whatever desc and date nodes its container
\* holds; under full and advanced the supplied selectors are kept as given
\* and a desc node with text gives the item a description.
C16_ModeGates ==
  Parsed =>
    IF FullOrAdvanced
    THEN /\ params.desc = Trim(query.desc) /\ params.date = Trim(query.date)
         /\ \A k \in 1..Len(heap) :
               (\E i \in 1..Len(nodes[k].desc) : ~ IsBlank(nodes[k].desc[i]))
               => heap[k].desc # << >>
    ELSE /\ ~ Truthy(params.desc) /\ ~ Truthy(params.date)
         /\ \A k \in 1..Len(heap) : heap[k].desc = << >> /\ heap[k].pubDate = UNDEF

\* C16 witness: under mode "Full" an item has a description and a pubDate
C16_Witness ==
  /\ query.mode = << "F", "u", "l", "l" >>
  /\ \E k \in 1..Len(heap) :
        /\ heap[k].desc = << "a", " " >>
        /\ heap[k].pubDate = ToISOString(Year)

(***************************************************************************)
(* Serialization: full-mode requests with all four field selectors, over   *)
(* flat documents whose texts and hrefs hold markup characters and the     *)
(* sequence that closes a CDATA section.                                   *)
(***************************************************************************)
AmpUrl == << "h", "t", "t", "p", ":", "/", "/", "s", "/", "p", "?", "a", "&", "b" >>

FeedQueries ==
  { [ BaseQuery EXCEPT !.url = u, !.title = Sel, !.link = Sel, !.desc = Sel,
                       !.date = Sel, !.mode = ModeFull ] : u \in { Url, AmpUrl } }

CdataEnd == << "]", "]", ">" >>

FeedChunks == { << >>, << "&", "<" >>, CdataEnd }

InitFeed ==
  InitWith(FeedQueries,
           { FlushVocab(FeedChunks, { << >>, Year }, { NULL, << "y", "&" >> }, 1) },
           MaxEvents)
NextFeed ==
  ParseParams \/ Fetch \/ ReadChunk \/ EndChunk \/ Eof \/ OpenItem \/ CloseItem
    \/ LinkTag \/ TitleChunk \/ DescChunk \/ DateChunk \/ BuildRss
SpecFeed == InitFeed /\ [][NextFeed]_vars

\* C15: when the upstream fetch rejects or resolves with a non-success
\* status the request is answered with 502, fetch was called exactly once,
\* no handler of the extraction has run and nothing was serialized; no
\* request ever calls fetch twice.
C15_UpstreamFailure ==
  /\ fetches <= 1
  /\ upstream \in { "rejected", "status" } =>
       /\ pc = "e502" /\ ResponseStatus = 502
       /\ fetches = 1
       /\ heap = << >> /\ items = << >> /\ stack = << >> /\ nodes = << >>
       /\ rssXml = NoRss

\* C15 witness: the upstream answered with a non-success status and the
\* request was answered with 502
C15_Witness ==
  /\ upstream = "status"
  /\ ResponseStatus = 502 /\ fetches = 1

\* The elements among the lines of one item or of the channel
Elements(lines) == { j \in 1..Len(lines) : lines[j].kind \in { "text", "cdata" } }
Named(lines, name) == { j \in Elements(lines) : lines[j].name = name }

\* s occurs in body
Contains(body, s) ==
  \E i \in 1..Len(body) : i + Len(s) - 1 <= Len(body) /\ SubSeq(body, i, i + Len(s) - 1) = s

\* The entity reference body holds at position i
RefAt(body, i, ent) ==
  i + Len(ent) - 1 <= Len(body) /\ SubSeq(body, i, i + Len(ent) - 1) = ent

\* No raw "<", ">" or "&": every "&" starts one of the three references
NoRawMarkup(body) ==
  \A i \in 1..Len(body) :
    /\ body[i] \notin { "<", ">" }
    /\ body[i] = "&" => \E ent \in { EntLt, EntGt, EntAmp } : RefAt(body, i, ent)

\* The text an XML parser reads from escaped character data
RECURSIVE Unescape(_)
Unescape(body) ==
  IF body = << >> THEN << >>
  ELSE IF RefAt(body, 1, EntLt) THEN << "<" >> \o Unescape(SubSeq(body, 5, Len(body)))
  ELSE IF RefAt(body, 1, EntGt) THEN << ">" >> \o Unescape(SubSeq(body, 5, Len(body)))
  ELSE IF RefAt(body, 1, EntAmp) THEN << "&" >> \o Unescape(SubSeq(body, 6, Len(body)))
  ELSE << Head(body) >> \o Unescape(Tail(body))

\* An escaped rendering of the value
EscapedAs(body, value) == NoRawMarkup(body) /\ Unescape(body) = value

\* C17: in the serialized feed the body of every item title, link and guid
\* element and of the channel title and link holds no raw "<", ">" or "&",
\* and reads back as the value it was made from.
C17_Escaped ==
  pc = "r200" =>
    /\ \A j \in Named(rssXml.channel, "title") :
          EscapedAs(rssXml.channel[j].body, << "s" >>)
    /\ \A j \in Named(rssXml.channel, "link") :
          EscapedAs(rssXml.channel[j].body, Trim(query.url))
    /\ \A i \in 1..Len(rssXml.items) :
          /\ \A j \in Named(rssXml.items[i], "title") :
                EscapedAs(rssXml.items[i][j].body, heap[items[i]].title)
          /\ \A j \in Named(rssXml.items[i], "link") \cup Named(rssXml.items[i], "guid") :
                EscapedAs(rssXml.items[i][j].body, heap[items[i]].link)

\* C17 witness: a feed for a url with "&" was serialized with an item whose
\* title holds "&" and "<" and whose link holds "&"
C17_Witness ==
  /\ pc = "r200" /\ query.url = AmpUrl
  /\ \E i \in 1..Len(items) :
        /\ Contains(heap[items[i]].title, << "&", "<" >>)
        /\ heap[items[i]].link = << "y", "&" >>
        /\ Named(rssXml.items[i], "title") # {}
        /\ Named(rssXml.items[i], "guid") # {}

\* A field of an item is non-empty
NonEmpty(v) == v # UNDEF /\ v # NULL /\ Len(v) > 0

\* The lines of an item hold one element of the name with the body, or none
EmitsIff(lines, name, cond, body) ==
  IF cond
  THEN \E j \in 1..Len(lines) : Named(lines, name) = { j } /\ lines[j].body = body
  ELSE Named(lines, name) = {}

\* C18: for each item of the serialized feed a title, link, description and
\* pubDate element is emitted exactly when the field is non-empty, and then
\* once; no emitted element is empty; a guid is emitted exactly when a link
\* is, with the same body.
C18_FieldsEmitted ==
  pc = "r200" =>
    /\ Len(rssXml.items) = Len(items)
    /\ \A i \in 1..Len(items) :
          LET it == heap[items[i]]
              lines == rssXml.items[i]
          IN  /\ EmitsIff(lines, "title", NonEmpty(it.title), esc(it.title))
              /\ EmitsIff(lines, "link", NonEmpty(it.link), esc(it.link))
              /\ EmitsIff(lines, "description", NonEmpty(it.desc), it.desc)
              /\ EmitsIff(lines, "pubDate", NonEmpty(it.pubDate), it.pubDate)
              /\ EmitsIff(lines, "guid", Named(lines, "link") # {}, esc(it.link))
              /\ \A j \in Elements(lines) : Len(lines[j].body) > 0
              /\ \A j \in Elements(lines) :
                    lines[j].name \in { "title", "link", "description", "pubDate", "guid" }

\* C18 witness: an item with a title and a description and without link and
\* pubDate was serialized as exactly a title and a description element
C18_Witness ==
  /\ pc = "r200"
  /\ \E i \in 1..Len(items) :
        /\ NonEmpty(heap[items[i]].title) /\ NonEmpty(heap[items[i]].desc)
        /\ heap[items[i]].link = UNDEF /\ heap[items[i]].pubDate = UNDEF
        /\ Len(rssXml.items[i]) = 4
        /\ rssXml.items[i][2].name = "title"
        /\ rssXml.items[i][3].name = "description"

\* Character data and CDATA sections an XML parser accepts
WellFormedLine(l) ==
  CASE l.kind = "text" -> NoRawMarkup(l.body) /\ ~ Contains(l.body, CdataEnd)
    [] l.kind = "cdata" -> ~ Contains(l.body, CdataEnd)
    [] OTHER -> TRUE

\* C19: every document buildRss returns is well-formed XML: the character
\* data of every element holds no raw markup, and no CDATA section holds the
\* sequence that would close it early.
C19_WellFormed ==
  pc = "r200" =>
    /\ \A j \in 1..Len(rssXml.channel) : WellFormedLine(rssXml.channel[j])
    /\ \A i \in 1..Len(rssXml.items) :
          \A j \in 1..Len(rssXml.items[i]) : WellFormedLine(rssXml.items[i][j])

(***************************************************************************)
(* Self-reference: link-only requests whose link selector is "@", "." or a *)
(* descendant selector, over documents whose containers carry hrefs.       *)
(***************************************************************************)
SelfQueries ==
  { [ BaseQuery EXCEPT !.link = l, !.limit = n ] :
      l \in { << "@" >>, << "." >> }, n \in { NULL, << "1" >> } }
    \cup { [ BaseQuery EXCEPT !.link = Sel ] }

InitSelf ==
  InitWith(SelfQueries,
           { FlushVocab({ << >> }, { << >> }, Hrefs, d) : d \in { 1, MaxDepth } }, MaxEvents)
NextSelf ==
  ParseParams \/ Fetch \/ ReadChunk \/ EndChunk \/ Eof \/ OpenItemHref \/ CloseItem
    \/ InnerLinkTag
SpecSelf == InitSelf /\ [][NextSelf]_vars

\* C20: when the link selector is "@" or ".", the link of every item is the
\* href of its own container, resolved against the origin when it begins
\* with "/", and an item whose container has no href (or an empty one) has
\* no link; hrefs of other containers and of inner elements never reach it.
C20_SelfLink ==
  (Parsed /\ (query.link = << "@" >> \/ query.link = << "." >>)) =>
    \A k \in 1..Len(heap) :
      LET own == nodes[k].href[1]
      IN  IF own = NULL \/ own = << >> THEN heap[k].link = UNDEF
          ELSE heap[k].link = IF own[1] = "/" THEN HttpS \o own ELSE own

\* C20 witness: three containers in a row, the first with href "y" and in the
\* result list, the second without href and without link, the third with
\* href "/x" and the resolved link
C20_Witness ==
  /\ query.link = << "@" >> /\ Flat
  /\ Len(heap) >= 3 /\ Len(items) >= 1 /\ items[1] = 1
  /\ nodes[1].href = << << "y" >> >> /\ heap[1].link = << "y" >>
  /\ nodes[2].href = << NULL >> /\ heap[2].link = UNDEF
  /\ nodes[3].href = << << "/", "x" >> >> /\ heap[3].link = HttpS \o << "/", "x" >>

(***************************************************************************)
(* Dates: full-mode requests with a date selector over flat documents.     *)
(***************************************************************************)
DateQueries ==
  { [ BaseQuery EXCEPT !.title = Sel, !.date = Sel, !.mode = m, !.limit = n ] :
      m \in { ModeFull, ModeAdvanced }, n \in { NULL, << "1" >> } }

DateChunks == { << >>, Year, Time, << " " >> }

InitDate == InitWith(DateQueries, { FlushVocab({ << >> }, DateChunks, { NULL }, 1) }, MaxEvents)
NextDate == ParseParams \/ Fetch \/ ReadChunk \/ EndChunk \/ Eof \/ OpenItem \/ CloseItem \/ DateChunk
SpecDate == InitDate /\ [][NextDate]_vars

\* The date the first parsable candidate of ns gives, UNDEF when none parses
RECURSIVE FirstValid(_)
FirstValid(ns) ==
  IF ns = << >> THEN UNDEF
  ELSE IF DateParses(safeCap(Head(ns), CAP_DATE)) THEN ToISOString(safeCap(Head(ns), CAP_DATE))
  ELSE FirstValid(Tail(ns))

\* C9: once the date nodes delivered so far are complete, the pubDate of an
\* item is the date of the first node of its container that parses (absent
\* when none does): candidates are tried in document order, a failed one is
\* skipped, and a later one never replaces a date that is set.
C9_FirstValidWins ==
  (Flat /\ open = "none") =>
    \A k \in 1..Len(heap) : heap[k].pubDate = FirstValid(nodes[k].date)

\* C22: when a container opens and its accumulator is allocated, every text
\* accumulator is empty: the new item has empty title, description and
\* filter text and no pubDate, and the date buffer holds nothing left from
\* an earlier container.
C22_FreshAtOpen ==
  [][ Len(heap') > Len(heap) =>
        /\ heap'[Len(heap')] = FreshItem
        /\ rawText' = << >> ]_vars

NotSpace(c) == c \notin WhiteSpace

\* The characters of a string that are not whitespace
Strip(v) == SelectSeq(v, NotSpace)

\* The non-whitespace characters of the nodes, in document order
RECURSIVE StripAll(_)
StripAll(ns) == IF ns = << >> THEN << >> ELSE Strip(Head(ns)) \o StripAll(Tail(ns))

\* Title and description hold the text of all their nodes, in document order
Accumulated(k) ==
  /\ Strip(heap[k].title) = StripAll(nodes[k].title)
  /\ Strip(heap[k].desc) = StripAll(nodes[k].desc)

\* C29: title and description of an item hold the text of all matching
\* nodes of its container in document order (compared without whitespace,
\* for texts within the caps), whereas its link is the first href of the
\* container and, once the date nodes delivered are complete, its pubDate
\* is the date of the first node that parses.
C29_AllVersusFirst ==
  (Parsed /\ open = "none") =>
    \A k \in 1..Len(heap) :
      /\ Accumulated(k)
      /\ heap[k].link = FirstLink(nodes[k].href)
      /\ heap[k].pubDate = FirstValid(nodes[k].date)

(***************************************************************************)
(* Filters: requests with title and link selectors and a filters block,    *)
(* over flat documents.                                                    *)
(***************************************************************************)
FilterBlocks ==
  { NULL,
    << "t", "i", "t", "l", "e", "=", "/", "^", "b", "/", "i" >>,
    << "t", "i", "t", "l", "e", "=", "/", "a", "/", "g" >>,
    << "i", "t", "e", "m", "=", "/", "a", "/" >>,
    << "x" >>,
    << "t", "i", "t", "l", "e", "=", "/", "(", "/" >> }

FilterQueries ==
  { [ BaseQuery EXCEPT !.title = Sel, !.link = Sel, !.filters = f ] : f \in FilterBlocks }

FilterChunks == { << >>, << "a" >>, << "B", " " >> }

InitFilter ==
  InitWith(FilterQueries,
           { FlushVocab(FilterChunks, { << >> }, { NULL, << "y" >> }, 1) }, MaxEvents)
NextFilter ==
  ParseParams \/ Fetch \/ ReadChunk \/ EndChunk \/ Eof \/ OpenItem \/ CloseItem
    \/ LinkTag \/ PlainChunk \/ TitleChunk
SpecFilter == InitFilter /\ [][NextFilter]_vars

(***************************************************************************)
(* Link rules: requests with title and link selectors and one link rule,   *)
(* over flat documents whose containers have a title, a link, or both.     *)
(***************************************************************************)
AnyCharRule == << "l", "i", "n", "k", "=", "/", ".", "/" >>
GlobalRule == << "l", "i", "n", "k", "=", "/", "y", "/", "g" >>
StickyRule == << "l", "i", "n", "k", "=", "/", "y", "/", "y" >>
PlainRule == << "l", "i", "n", "k", "=", "/", "y", "/" >>

RuleQueries ==
  { [ BaseQuery EXCEPT !.title = Sel, !.link = Sel, !.filters = f ] :
      f \in { AnyCharRule, GlobalRule, StickyRule, PlainRule } }

InitRules ==
  InitWith(RuleQueries,
           { FlushVocab({ << >>, << "a" >> }, { << >> }, { NULL, << "y" >> }, 1) }, MaxEvents)
NextRules ==
  ParseParams \/ Fetch \/ ReadChunk \/ EndChunk \/ Eof \/ OpenItem \/ CloseItem
    \/ LinkTag \/ TitleChunk
SpecRules == InitRules /\ [][NextRules]_vars

\* C27: under a link rule that requires at least one character (/./), an
\* item without a link is tested as the empty string and so is excluded:
\* every item of the result list has a link.
C27_AbsentLinkIsEmpty ==
  (Parsed /\ query.filters = AnyCharRule) =>
    \A i \in 1..Len(items) : Truthy(heap[items[i]].link)

\* The container that allocated object k is closed
Closed(k) == k \in 1..Len(heap) /\ ~ OnStack(k)

InResult(k) == \E i \in 1..Len(items) : items[i] = k

\* C28: whatever the flags of the rule, two items with equal fields get the
\* same decision: of two closed containers whose accumulators are equal,
\* either both are in the result list or neither is.
C28_SameFieldsSameDecision ==
  Parsed =>
    \A k1, k2 \in 1..Len(heap) :
      (Closed(k1) /\ Closed(k2) /\ heap[k1] = heap[k2]) => (InResult(k1) <=> InResult(k2))

\* The rules the filters parameter configures: the lines parseFilters keeps
ConfiguredRules ==
  IF Truthy(GetTrim(query.filters))
  THEN { r \in { ParseFilterLine(l) :
                   l \in { SplitLines(GetTrim(query.filters))[i] :
                             i \in 1..Len(SplitLines(GetTrim(query.filters))) } } :
           r # NoRule }
  ELSE {}

\* A regex matches a string: it matches at some position of it
Matches(rx, v) == \E p \in 0..Len(ToStr(v)) : MatchesAt(rx, ToStr(v), p)

FieldOf(it, key) ==
  IF key = KeyItem THEN it._text
  ELSE IF key = KeyTitle THEN it.title
  ELSE IF key = KeyLink THEN it.link
  ELSE it.desc

\* Non-empty title or link, and every configured filter matches its field
Includable(it) ==
  /\ it.title # << >> \/ Truthy(it.link)
  /\ \A key \in FilterKeys :
       params.filters.defined /\
       (CASE key = KeyItem -> params.filters.item.set
          [] key = KeyTitle -> params.filters.title.set
          [] key = KeyLink -> params.filters.link.set
          [] OTHER -> params.filters.desc.set)
       => Matches(CASE key = KeyItem -> params.filters.item
                    [] key = KeyTitle -> params.filters.title
                    [] key = KeyLink -> params.filters.link
                    [] OTHER -> params.filters.desc, FieldOf(it, key))

\* C3: when a container closes before the limit is reached, its item is
\* appended to the result list if and only if its title or link is non-empty
\* and every configured filter matches its field.
C3_IncludedIff ==
  [][ ( /\ pc = "chunk" /\ stack # << >> /\ Len(stack') < Len(stack)
        /\ stack[Len(stack)] # 0 /\ ~ LimitReached(Eng) )
      => IF Includable(heap[current])
         THEN items' = Append(items, current)
         ELSE items' = items ]_vars

\* C4: a request whose filters parameter is non-empty but keeps no rule is
\* never answered with an error.
C4_DroppedIsAbsent ==
  (Truthy(GetTrim(query.filters)) /\ ConfiguredRules = {}) => pc # "e500"

(***************************************************************************)
(* Two requests in one isolate.  handleFeed is an async function: a second *)
(* request runs while the first waits at an await (the fetch of line 54,   *)
(* reader.read() of line 241).  items, current (133-134) and rawText (216) *)
(* are locals of one extractItems call and the filters are compiled by one *)
(* parseParams call, so they are suspended and resumed with their request. *)
(***************************************************************************)
TwoEvents == 6    \* tokenizer events per document when two requests interleave

\* The request in service, as it is kept while it waits
Suspended ==
  [ pc |-> pc, query |-> query, params |-> params, heap |-> heap, current |-> current,
    items |-> items, rawText |-> rawText, lastIndex |-> lastIndex, stack |-> stack,
    open |-> open, nodes |-> nodes, left |-> left, upstream |-> upstream,
    fetches |-> fetches, rssXml |-> rssXml, trace |-> trace ]

\* Where handleFeed waits or has returned
AwaitPoints == { "fetch", "await", "r200", "e400", "e500", "e502" }

\* Switch with a date buffer that belongs to the module, not to the request
SwitchSharedDateBuffer ==
  /\ other # NoOther
  /\ pc \in AwaitPoints
  /\ pc' = other.pc /\ query' = other.query /\ params' = other.params
  /\ heap' = other.heap /\ current' = other.current /\ items' = other.items
  /\ rawText' = rawText /\ lastIndex' = other.lastIndex
  /\ stack' = other.stack /\ open' = other.open /\ nodes' = other.nodes
  /\ left' = other.left /\ upstream' = other.upstream /\ fetches' = other.fetches
  /\ rssXml' = other.rssXml /\ trace' = other.trace
  /\ other' = Suspended
  /\ UNCHANGED vocab

\* The request in service waits and the event loop resumes the other one
Switch ==
  /\ other # NoOther
  /\ pc \in AwaitPoints
  /\ pc' = other.pc /\ query' = other.query /\ params' = other.params
  /\ heap' = other.heap /\ current' = other.current /\ items' = other.items
  /\ rawText' = other.rawText /\ lastIndex' = other.lastIndex
  /\ stack' = other.stack /\ open' = other.open /\ nodes' = other.nodes
  /\ left' = other.left /\ upstream' = other.upstream /\ fetches' = other.fetches
  /\ rssXml' = other.rssXml /\ trace' = other.trace
  /\ other' = Suspended
  /\ UNCHANGED vocab

\* The extraction of a request that is served alone, before any event
Alone ==
  [ eng |-> [ heap |-> << >>, current |-> 0, items |-> << >>, rawText |-> << >>,
              lastIndex |-> ZeroIndex, thrown |-> FALSE ],
    stack |-> << >> ]

\* The handlers one tokenizer event runs, on the extraction rs
Deliver(rs, ev) ==
  LET st  == rs.eng
      top == rs.stack[Len(rs.stack)]
      pop == SubSeq(rs.stack, 1, Len(rs.stack) - 1)
      txt == ItemText(st, ev.arg, ev.last)
      self == Truthy(params.link) /\ IsSelf(params.link)
      opened == ItemElement(st)
  IN  IF st.thrown THEN rs
      ELSE CASE ev.kind = "open" ->
                  [ eng |-> opened,
                    stack |-> Append(rs.stack, IF LimitReached(st) THEN 0 ELSE opened.current) ]
             [] ev.kind = "openHref" ->
                  [ eng |-> IF self THEN SelfLinkElement(opened, ev.arg) ELSE opened,
                    stack |-> Append(rs.stack, IF LimitReached(st) THEN 0 ELSE opened.current) ]
             [] ev.kind = "close" ->
                  [ eng |-> IF top # 0 THEN OnEndTag(st) ELSE st, stack |-> pop ]
             [] ev.kind = "link" ->
                  [ rs EXCEPT !.eng = LinkElement(st, ev.arg) ]
             [] ev.kind = "innerLink" ->
                  [ rs EXCEPT !.eng = IF IsSelf(params.link) THEN st
                                      ELSE SelfLinkElement(st, ev.arg) ]
             [] ev.kind = "plain" ->
                  [ rs EXCEPT !.eng = txt ]
             [] ev.kind = "title" ->
                  [ rs EXCEPT !.eng = IF txt.thrown THEN txt
                                      ELSE TitleText(txt, ev.arg, ev.last) ]
             [] ev.kind = "desc" ->
                  [ rs EXCEPT !.eng = IF txt.thrown \/ ~ Truthy(params.desc) THEN txt
                                      ELSE DescText(txt, ev.arg, ev.last) ]
             [] ev.kind = "date" ->
                  [ rs EXCEPT !.eng = IF txt.thrown \/ ~ Truthy(params.date) THEN txt
                                      ELSE DateText(txt, ev.arg, ev.last) ]

\* The extraction of a request served alone after the events tr
RECURSIVE Replay(_)
Replay(tr) ==
  IF tr = << >> THEN Alone
  ELSE Deliver(Replay(SubSeq(tr, 1, Len(tr) - 1)), tr[Len(tr)])

\* Two requests for the same feed with a link rule that keeps a position,
\* over documents with links and dates
TwoQuery ==
  [ BaseQuery EXCEPT !.link = Sel, !.date = Sel, !.mode = ModeFull, !.filters = GlobalRule ]

TwoVocab == FlushVocab({ << >> }, { << >>, Year }, { << "y" >> }, 1)

InitTwo ==
  /\ pc = "parse"
  /\ query = TwoQuery
  /\ params = NoParams
  /\ heap = << >>
  /\ current = 0
  /\ items = << >>
  /\ rawText = << >>
  /\ lastIndex = ZeroIndex
  /\ stack = << >>
  /\ open = "none"
  /\ nodes = << >>
  /\ vocab = TwoVocab
  /\ left = TwoEvents
  /\ upstream = "none"
  /\ fetches = 0
  /\ rssXml = NoRss
  /\ trace = << >>
  /\ other = [ pc |-> "parse", query |-> TwoQuery, params |-> NoParams, heap |-> << >>,
               current |-> 0, items |-> << >>, rawText |-> << >>, lastIndex |-> ZeroIndex,
               stack |-> << >>, open |-> "none", nodes |-> << >>, left |-> TwoEvents,
               upstream |-> "none", fetches |-> 0, rssXml |-> NoRss, trace |-> << >> ]
NextTwo ==
  ParseParams \/ Fetch \/ ReadChunk \/ EndChunk \/ Eof \/ OpenItem \/ CloseItem
    \/ LinkTag \/ DateChunk \/ BuildRss \/ Switch
SpecTwo == InitTwo /\ [][NextTwo]_vars

\* C30: when two requests interleave at their awaits, the result list, the
\* items, the current accumulator, the date buffer and the positions of the
\* compiled filters of a request are the ones the request produces when its
\* own events are delivered to it alone, and it fails exactly when it fails
\* alone.
C30_AsIfAlone ==
  (other # NoOther /\ Parsed) =>
    LET alone == Replay(trace)
    IN  /\ items = alone.eng.items
        /\ heap = alone.eng.heap
        /\ current = alone.eng.current
        /\ rawText = alone.eng.rawText
        /\ lastIndex = alone.eng.lastIndex
        /\ stack = alone.stack
        /\ (pc = "e500") = alone.eng.thrown

\* C30 witness: both requests wait in their read loops, each inside a date
\* node of its own container with its own text buffered, and the request in
\* service has been resumed after the other one started extracting.
C30_Witness ==
  /\ other # NoOther
  /\ pc = "await" /\ other.pc = "await"
  /\ open = "date" /\ other.open = "date"
  /\ rawText = Year /\ other.rawText = Year
  /\ Truthy(heap[current].link) /\ Truthy(other.heap[other.current].link)

(***************************************************************************)
(* Buffers: requests with title and date selectors over documents whose    *)
(* date nodes arrive in fragments as long as the date cap.                 *)
(***************************************************************************)
BufferQueries == { [ BaseQuery EXCEPT !.title = Sel, !.date = Sel, !.mode = ModeFull ] }

InitBuffer ==
  InitWith(BufferQueries,
           { FlushVocab({ << >>, << "a" >> }, { << >>, Year, Run(CAP_DATE) }, { NULL }, 1) },
           MaxEvents)
NextBuffer ==
  ParseParams \/ Fetch \/ ReadChunk \/ EndChunk \/ Eof \/ OpenItem \/ CloseItem
    \/ TitleChunk \/ DateChunk
SpecBuffer == InitBuffer /\ [][NextBuffer]_vars

\* C31: in every reachable state, the fragments of an unfinished text node
\* included, the title, the description and the filter text of every item
\* and the date node buffer are no longer than their caps.
C31_BoundedBuffers ==
  /\ Len(rawText) <= CAP_DATE
  /\ \A k \in 1..Len(heap) :
        /\ Len(heap[k].title) <= CAP_TITLE
        /\ Len(heap[k].desc) <= CAP_DESC
        /\ Len(heap[k]._text) <= CAP_ITEMTEXT

(***************************************************************************)
(* Streaming and full reads: two requests for the same page with link      *)
(* selectors and a limit of one or zero, one read with stream=off and one  *)
(* in streaming mode, over flat documents.  When the events the streaming  *)
(* request has seen are the beginning of the events of the full read, the  *)
(* two have read the same document and the streaming one has stopped early.*)
(***************************************************************************)
StreamQuery(n, s) == [ BaseQuery EXCEPT !.link = Sel, !.limit = n, !.stream = s ]

InitStream ==
  \E n \in { << "1" >>, << "0" >> } :
    /\ pc = "parse"
    /\ query = StreamQuery(n, StreamOff)
    /\ params = NoParams
    /\ heap = << >>
    /\ current = 0
    /\ items = << >>
    /\ rawText = << >>
    /\ lastIndex = ZeroIndex
    /\ stack = << >>
    /\ open = "none"
    /\ nodes = << >>
    /\ vocab = FlushVocab({ << >> }, { << >> }, { NULL, << "y" >> }, 1)
    /\ left = TwoEvents
    /\ upstream = "none"
    /\ fetches = 0
    /\ rssXml = NoRss
    /\ trace = << >>
    /\ other = [ pc |-> "parse", query |-> StreamQuery(n, NULL), params |-> NoParams,
                 heap |-> << >>, current |-> 0, items |-> << >>, rawText |-> << >>,
                 lastIndex |-> ZeroIndex, stack |-> << >>, open |-> "none", nodes |-> << >>,
                 left |-> TwoEvents, upstream |-> "none", fetches |-> 0, rssXml |-> NoRss,
                 trace |-> << >> ]
NextStream ==
  ParseParams \/ Fetch \/ ReadChunk \/ EndChunk \/ Eof \/ OpenItem \/ CloseItem
    \/ LinkTag \/ BuildRss \/ Switch
SpecStream == InitStream /\ [][NextStream]_vars

\* The items extractItems returns, with their field values
Returned == [ i \in 1..Len(items) |-> heap[items[i]] ]

\* The items the waiting request has returned
ReturnedByOther == [ i \in 1..Len(other.items) |-> other.heap[other.items[i]] ]

IsPrefix(a, b) == Len(a) <= Len(b) /\ SubSeq(b, 1, Len(a)) = a

\* The request in service reads in full, and the other one, in streaming
\* mode, has been answered after it returned at the limit, having seen the
\* beginning of the same events
ReadPastStop ==
  /\ ~ params.stream /\ Parsed
  /\ other.pc = "r200" /\ other.params.stream
  /\ Len(other.items) >= other.params.limit
  /\ other.trace # << >> /\ IsPrefix(other.trace, trace)

\* C32: for flat documents, a full read (stream=off) of a document returns
\* what the streaming read of the same document has returned at the limit:
\* the same items with the same field values, and no error instead of them.
C32_FullReadSameResult ==
  ReadPastStop => (pc # "e500" /\ (pc \in { "done", "r200" } => Returned = ReturnedByOther))

(***************************************************************************)
(* Termination: link-only requests in both modes over finite documents of  *)
(* containers and link elements.  The handlers of a chunk run to the end   *)
(* (weak fairness of EndChunk) and a finite stream reports done after      *)
(* finitely many reads (strong fairness of Eof).                           *)
(***************************************************************************)
HaltQueries ==
  { [ BaseQuery EXCEPT !.link = Sel, !.limit = n, !.stream = s ] :
      n \in { << "2" >>, << "0" >> }, s \in { NULL, StreamOff } }

InitHalt ==
  InitWith(HaltQueries, { FlushVocab({ << >> }, { << >> }, { NULL, << "y" >> }, 1) }, MaxEvents)
NextHalt == ParseParams \/ Fetch \/ ReadChunk \/ EndChunk \/ Eof \/ OpenItem \/ CloseItem \/ LinkTag
SpecHalt == InitHalt /\ [][NextHalt]_vars /\ WF_vars(EndChunk) /\ SF_vars(Eof)

\* extractItems is reading the body
Reading == pc \in { "await", "chunk" }

\* extractItems has returned the result list, or a handler has thrown
Ended == pc \in { "done", "e500" }

\* C33: on a finite stream, in streaming mode and with stream=off, an
\* extraction that is reading eventually ends: the loop is left at done or
\* at the limit and extractItems returns, unless a handler throws first.
C33_Terminates == Reading ~> Ended

\* C33 witness: a streaming extraction has returned because the stream
\* reported done before the limit was reached, with one item collected.
C33_Witness ==
  /\ pc = "done" /\ params.stream
  /\ Len(items) = 1 /\ params.limit = 2

\* C34: an item whose title nodes delivered only whitespace or nothing, and
\* that has no link, has neither title nor link: no item of the result list
\* has a blank title and no link.
C34_BlankTitleNoLinkDropped ==
  \A i \in 1..Len(items) :
    ~ (IsBlank(heap[items[i]].title) /\ ~ Truthy(heap[items[i]].link))

(***************************************************************************)
(* Nothing matches: requests with title and link selectors, without a      *)
(* filters parameter or with one that holds no rule, over documents with   *)
(* no container or with containers that hold plain text only.              *)
(***************************************************************************)
NoRuleBlock == << "x" >>

EmptyQueries ==
  { [ BaseQuery EXCEPT !.title = Sel, !.link = Sel, !.filters = f ] : f \in { NULL, NoRuleBlock } }

InitEmpty ==
  InitWith(EmptyQueries, { FlushVocab({ << >>, << "a" >> }, { << >> }, { NULL }, 1) }, MaxEvents)
NextEmpty ==
  ParseParams \/ Fetch \/ ReadChunk \/ EndChunk \/ Eof \/ OpenItem \/ CloseItem
    \/ PlainChunk \/ BuildRss
SpecEmpty == InitEmpty /\ [][NextEmpty]_vars

\* C35: when no title and no link is matched (no container, or containers
\* without them), no handler throws, the result list stays empty, and the
\* response is 200 with the channel lines, no item and the closing tags.
C35_EmptyFeed ==
  /\ pc # "e500"
  /\ items = << >>
  /\ pc = "r200" =>
       /\ ResponseStatus = 200
       /\ rssXml.channel = ChannelLines(params)
       /\ rssXml.items = << >>
       /\ rssXml.tail = << EndTag("channel"), EndTag("rss") >>

\* The request has an item rule
HasItemRule == params.filters.defined /\ params.filters.item.set

\* C36: without an item rule no text event changes the filter text of an
\* item, which stays empty; with an item rule, the container that closes is
\* appended only if the rule, tested from its position, matches the filter
\* text collected for it.
C36_ItemTextOnlyWithRule ==
  /\ []( (Parsed /\ ~ HasItemRule) => \A k \in 1..Len(heap) : heap[k]._text = << >> )
  /\ [][ ( /\ Parsed /\ HasItemRule
           /\ pc = "chunk" /\ Len(stack') < Len(stack) /\ stack[Len(stack)] # 0 )
         => ( items' # items
              => RegexTest(params.filters.item, heap[current]._text, lastIndex.item) ) ]_vars

\* C36 witness: under the rule item=/a/ a container with a title whose text
\* holds "a" has been closed and appended with that text as its filter text.
C36_Witness ==
  /\ Parsed /\ HasItemRule
  /\ items = << 1 >> /\ stack = << >>
  /\ Contains(heap[1]._text, << "a" >>)
  /\ Truthy(heap[1].title)

(***************************************************************************)
(* Headers: requests in every mode with a headers parameter that is        *)
(* absent, not base64, or the base64 of a block of header lines.           *)
(***************************************************************************)
\* Not base64: a character outside the alphabet; a length of 4n + 1
BadCharB64 == << "!", "!", "!", "!" >>
BadLengthB64 == << "Q", "T", "o", "g", "Y" >>

\* btoa("A: b"), with and without padding
GoodB64 == << "Q", "T", "o", "g", "Y", "g", "=", "=" >>
UnpaddedB64 == << "Q", "T", "o", "g", "Y", "g" >>

\* btoa("Host: x\nA: b")
HostB64 == << "S", "G", "9", "z", "d", "D", "o", "g", "e", "A", "p", "B", "O", "i", "B", "i" >>

\* btoa("A: b\r\n:c\nd\nA: e")
LinesB64 == << "Q", "T", "o", "g", "Y", "g", "0", "K", "O", "m", "M", "K", "Z", "A", "p", "B", "O",
       "i", "B", "l" >>

HeaderQueries ==
  { [ BaseQuery EXCEPT !.title = t, !.link = Sel, !.mode = m, !.headers = h ] :
      t \in { NULL, Sel },
      m \in { NULL, ModeFull, ModeAdvanced, << "A", "d", "v", "a", "n", "c", "e", "d" >> },
      h \in { NULL, << " " >>, BadCharB64, BadLengthB64, GoodB64, UnpaddedB64, HostB64, LinesB64 } }

InitHeaders == InitWith(HeaderQueries, { FlushVocab({ << >> }, { << >> }, { NULL }, 1) }, 0)
NextHeaders == ParseParams \/ Fetch \/ Eof
SpecHeaders == InitHeaders /\ [][NextHeaders]_vars

\* The request asks for advanced mode
Advanced == ToLowerCase(IF Truthy(query.mode) THEN query.mode ELSE ModeLite) = ModeAdvanced

\* The headers parameter of the request is not base64
NotBase64 == query.headers \in { BadCharB64, BadLengthB64 }

\* C37: in advanced mode a headers parameter that is not base64 is answered
\* with 400 and no upstream fetch; in lite and full mode the parameter never
\* changes the answer of parseParams, the parsed headers are empty and the
\* upstream request carries the two default headers only.
C37_HeadersOnlyAdvanced ==
  /\ (Advanced /\ NotBase64 /\ pc # "parse")
       => (pc = "e400" /\ ResponseStatus = 400 /\ fetches = 0 /\ upstream = "none")
  /\ (~ Advanced /\ pc # "parse")
       => /\ (pc = "e400") = (ParseStatus([ query EXCEPT !.headers = NULL ]) = 400)
          /\ Parsed => (params.headers = << >> /\ RequestHeaders(params) = DefaultHeaders)

\* C37 witness: an advanced request with selectors whose headers parameter
\* has a character outside the base64 alphabet has been answered with 400.
C37_Witness ==
  /\ Advanced /\ query.headers = BadCharB64 /\ Truthy(query.title)
  /\ pc = "e400" /\ fetches = 0

(***************************************************************************)
(* Errors: requests that parseParams rejects or accepts, with a limit of   *)
(* one or zero and a filters parameter that is absent or holds no rule,    *)
(* over documents of containers and links whose body may fail.             *)
(***************************************************************************)
ErrorQueries ==
  { [ BaseQuery EXCEPT !.link = l, !.limit = n, !.filters = f ] :
      l \in { NULL, Sel }, n \in { << "1" >>, << "0" >> }, f \in { NULL, NoRuleBlock } }

InitErrors ==
  InitWith(ErrorQueries, { FlushVocab({ << >> }, { << >> }, { NULL, << "y" >> }, 1) }, MaxEvents)
NextErrors ==
  ParseParams \/ Fetch \/ ReadChunk \/ ReadFails \/ EndChunk \/ Eof \/ OpenItem \/ CloseItem
    \/ LinkTag \/ BuildRss
SpecErrors == InitErrors /\ [][NextErrors]_vars

\* handleFeed has thrown
Thrown == pc \in { "e400", "e502", "e500" }

\* C38: every error thrown while a /feed request is handled is answered:
\* with 400 when parseParams rejected the query, with 502 when the upstream
\* fetch failed, and with 500 for an error without a status (a handler's
\* TypeError, a failed body read); a request without a response is still
\* being handled.
C38_EveryErrorAnswered ==
  /\ Thrown => ResponseStatus \in { 400, 502, 500 }
  /\ (pc # "parse" /\ ParseStatus(query) = 400) => (pc = "e400" /\ ResponseStatus = 400)
  /\ upstream \in { "rejected", "status" } => (pc = "e502" /\ ResponseStatus = 502)
  /\ pc = "e500" => (upstream = "ok" /\ ResponseStatus = 500)
  /\ ResponseStatus = 0 => pc \in { "parse", "fetch", "await", "chunk", "done" }

\* C38 witness: with limit=0 a link element made the link handler throw a
\* TypeError while the first chunk was handled, answered with 500.
C38_Witness ==
  /\ pc = "e500" /\ ResponseStatus = 500
  /\ params.limit = 0 /\ heap = << >> /\ stack = << 0 >> /\ left = MaxEvents - 2

====
